---- MODULE Spec2Model ----
(***************************************************************************)
(* Model of the content-addressed vault of src-tauri/src/lib.rs: the blob  *)
(* store (import_with_metadata_detailed), the reference ledger             *)
(* (vault_files), the record lifecycle commands that drive it              *)
(* (insert_item, insert_items_batch, delete_items, finalize_item_import),  *)
(* the sweep run by initialize_db, the remove_from_vault command and the   *)
(* import pipeline (run_import_pipeline_internal) with its thumbnail.      *)
(*                                                                         *)
(* Strings are sequences of one-character strings.  A SQLite transaction   *)
(* (and an autocommit statement) is one atomic step; every filesystem call *)
(* is a step of its own, so that callers interleave where the code holds   *)
(* no lock.  SpecTx takes the transactions apart into their statements.    *)
(***************************************************************************)
EXTENDS Integers, Sequences, FiniteSets, TLC

\* ------------------------------------------------------------------ bounds
\* highest ref_count the ledger calls are driven to when tried on their own
MaxRef == 3
\* year/month buckets under the storage root: 1..MaxBucket
MaxBucket == 2
\* item ids: 1..MaxItems
MaxItems == 2
\* longest insert_items_batch list and longest delete_items id list
MaxBatch == 2
\* longest key token handed to parse_vault_key on its own
MaxToken == 4

Procs == {"p1", "p2"}
Buckets == 1..MaxBucket
ItemIds == 1..MaxItems

\* ------------------------------------------------------------ string model
Whitespace == {" "}
Dot == "."
LowerAlnum == {"a", "b", "e", "f", "g", "j", "m", "n", "p", "i", "t", "w", "x", "0", "1"}
UpperAlpha == {"J", "P", "G"}

to_ascii_lowercase_char(c) ==
    CASE c = "J" -> "j"
      [] c = "P" -> "p"
      [] c = "G" -> "g"
      [] OTHER -> c

is_ascii_alphanumeric(c) == c \in LowerAlnum \cup UpperAlpha

RECURSIVE trim_start(_)
trim_start(s) ==
    IF s = <<>> THEN s
    ELSE IF Head(s) \in Whitespace THEN trim_start(Tail(s)) ELSE s

RECURSIVE trim_end(_)
trim_end(s) ==
    IF s = <<>> THEN s
    ELSE IF s[Len(s)] \in Whitespace THEN trim_end(SubSeq(s, 1, Len(s) - 1)) ELSE s

trim(s) == trim_end(trim_start(s))

RECURSIVE trim_start_matches_dot(_)
trim_start_matches_dot(s) ==
    IF s = <<>> THEN s
    ELSE IF Head(s) = Dot THEN trim_start_matches_dot(Tail(s)) ELSE s

to_ascii_lowercase(s) == [i \in 1..Len(s) |-> to_ascii_lowercase_char(s[i])]

Bin == <<"b", "i", "n">>

\* variant: the extension keeps the case it came in
normalize_ext_keeps_case(ext) ==
    LET cleaned == trim_start_matches_dot(trim(ext))
        sanitized == SelectSeq(cleaned, is_ascii_alphanumeric)
    IN  IF cleaned = <<>> THEN Bin
        ELSE IF sanitized = <<>> THEN Bin ELSE sanitized

normalize_ext(ext) ==
    LET cleaned == to_ascii_lowercase(trim_start_matches_dot(trim(ext)))
        sanitized == SelectSeq(cleaned, is_ascii_alphanumeric)
    IN  IF cleaned = <<>> THEN Bin
        ELSE IF sanitized = <<>> THEN Bin ELSE sanitized

\* variant: the extension goes into the name as it came
build_vault_filename_raw_ext(sha256, ext) == sha256 \o <<Dot>> \o ext

build_vault_filename(sha256, ext) == sha256 \o <<Dot>> \o normalize_ext(ext)

\* 1-based index of the last '.', 0 when there is none
rfind_dot(s) ==
    LET hits == {i \in 1..Len(s) : s[i] = Dot}
    IN  IF hits = {} THEN 0 ELSE CHOOSE i \in hits : \A j \in hits : j <= i

\* variant: the token is split as it came, blanks included
parse_vault_key_untrimmed(vault_key) ==
    LET at == rfind_dot(vault_key)
    IN  IF at = 0 \/ at = 1 \/ at >= Len(vault_key)
        THEN [ok |-> FALSE, sha256 |-> <<>>, ext |-> <<>>]
        ELSE [ok |-> TRUE,
              sha256 |-> SubSeq(vault_key, 1, at - 1),
              ext |-> normalize_ext(SubSeq(vault_key, at + 1, Len(vault_key)))]

parse_vault_key(vault_key) ==
    LET trimmed == trim(vault_key)
        at == rfind_dot(trimmed)
    IN  IF at = 0 \/ at = 1 \/ at >= Len(trimmed)
        THEN [ok |-> FALSE, sha256 |-> <<>>, ext |-> <<>>]
        ELSE [ok |-> TRUE,
              sha256 |-> SubSeq(trimmed, 1, at - 1),
              ext |-> normalize_ext(SubSeq(trimmed, at + 1, Len(trimmed)))]

WebpSuffix == <<".", "w", "e", "b", "p">>

is_thumb_char(c) == is_ascii_alphanumeric(c) \/ c \in {".", "-", "_"}

\* [ok, name]: the file name of the thumbnail of a key under thumbs/
thumb_filename_for_vault_key(vault_key) ==
    LET trimmed == trim(vault_key)
        sanitized == SelectSeq(trimmed, is_thumb_char)
    IN  IF trimmed = <<>> \/ sanitized = <<>>
        THEN [ok |-> FALSE, name |-> <<>>]
        ELSE [ok |-> TRUE, name |-> sanitized \o WebpSuffix]

\* ------------------------------------------------------------- input sets
\* sha256_for_file / sha256_for_bytes: an injective map from the modelled
\* contents to (shortened) digests
Contents == {"A"}
sha256_for(content) == CASE content = "A" -> <<"a">> [] OTHER -> <<"b">>

\* extensions as the caller or the source path gives them
RawExts == {<<"j", "p", "g">>, <<".", "J", "P", "G">>}

\* every file name import_with_metadata_detailed can write
PlaceKeys == {build_vault_filename(sha256_for(c), e) : c \in Contents, e \in RawExts}

EmptyKey == <<>>
BadKey == <<"a">>
\* a well-formed key no import of the modelled contents produces
OtherKey == <<"b", ".", "t", "x", "t">>
\* vault_key arguments of insert_item / finalize_item_import: every kind of
\* token for callers that run one after the other, the importable keys for
\* callers that interleave
AllKeys == PlaceKeys \cup {OtherKey, EmptyKey, BadKey}
CoreKeys == PlaceKeys
\* vault_path arguments: the bucket of the path; 0 is the empty string
InsertPaths == {1}
FinalizePaths == {0, 1}

\* extensions of the import pipeline's callers: the image ones and a document
RunExts == RawExts \cup {<<"t", "x", "t">>}
\* every file name the import pipeline can write
RunKeys == {build_vault_filename(sha256_for(c), e) : c \in Contents, e \in RunExts}
Digests == {sha256_for(c) : c \in Contents}

IMPORT_THUMB_MAX_SIZE == 480
\* widths and heights of the modelled images
Sides == {1, 3, 480, 481, 601, 1000}
\* what a content decodes to; <<0, 0>> is a content no decoder reads
NotDecodable == <<0, 0>>
Images == (Sides \X Sides) \cup {NotDecodable}
\* the content of the callers that run beside the database commands
LargeImage == <<1000, 601>>

ImageExts ==
    {<<"p", "n", "g">>, <<"j", "p", "g">>, <<"j", "p", "e", "g">>,
     <<"w", "e", "b", "p">>, <<"g", "i", "f">>, <<"b", "m", "p">>}
is_image_extension(ext) == normalize_ext(ext) \in ImageExts

ItemInputs(keys) == [id : ItemIds, vault_key : keys, vault_path : InsertPaths]

SeqsUpTo(S, n) == UNION {[1..k -> S] : k \in 1..n}

\* ------------------------------------------------------------------- state
VARIABLES
    items,      \* table items: id -> [vault_key, vault_path] of each row
    ledger,     \* table vault_files: vault_key -> row
    blobs,      \* storage/{bucket}/{name}: "none", "partial" (created, not
                \* fully written) or "full"
    thumbs,     \* file names present under thumbs/
    month,      \* the bucket Utc::now() falls in
    proc,       \* every caller's position and locals
    returned,   \* history: the <<file name, bucket>> paths place has returned
    image,      \* digest -> <<width, height>> the content decodes to
    call,       \* history: the last ledger call a statement-level step made,
                \* or the last place request
    dirs,       \* the buckets whose directory storage/YYYY/MM exists
    thumb_image \* thumbs/ file name -> <<width, height>> the file decodes to

vars ==
    <<items, ledger, blobs, thumbs, month, proc, returned, image, call, dirs,
      thumb_image>>

Put(f, k, v) == [x \in DOMAIN f \cup {k} |-> IF x = k THEN v ELSE f[x]]
Drop(f, S) == [x \in DOMAIN f \ S |-> f[x]]
EmptyMap == [x \in {} |-> 0]

\* ref_count of a key, 0 when no row exists
RefCount(l, k) == IF k \in DOMAIN l THEN l[k].ref_count ELSE 0
\* SELECT COUNT(*) FROM items WHERE vault_key = k
ItemRefs(it, k) == Cardinality({i \in DOMAIN it : it[i].vault_key = k})

\* ------------------------------------------------------------------ ledger
\* variant: the upsert replaces the row, INSERT OR REPLACE with ref_count 1
increment_replacing_row(l, vault_key, vault_path) ==
    LET parsed == parse_vault_key(vault_key)
    IN  IF trim(vault_key) = <<>> THEN [ok |-> TRUE, ledger |-> l]
        ELSE IF ~parsed.ok THEN [ok |-> FALSE, ledger |-> l]
        ELSE [ok |-> TRUE,
              ledger |-> Put(l, vault_key,
                  [vault_path |-> vault_path, sha256 |-> parsed.sha256,
                   ext |-> parsed.ext, ref_count |-> 1])]

\* [ok, ledger]
increment_vault_ref_in_tx(l, vault_key, vault_path) ==
    LET parsed == parse_vault_key(vault_key)
    IN  IF trim(vault_key) = <<>> THEN [ok |-> TRUE, ledger |-> l]
        ELSE IF ~parsed.ok THEN [ok |-> FALSE, ledger |-> l]
        ELSE [ok |-> TRUE,
              ledger |-> Put(l, vault_key,
                  [vault_path |-> vault_path,
                   sha256 |-> parsed.sha256,
                   ext |-> parsed.ext,
                   ref_count |-> IF vault_key \in DOMAIN l
                                 THEN l[vault_key].ref_count + 1 ELSE 1])]

\* variant: the UPDATE subtracts without the CASE that floors at zero
decrement_without_floor(l, vault_key, decrement_by) ==
    LET bounded_decrement == IF decrement_by > 0 THEN decrement_by ELSE 0
        after ==
            IF vault_key \in DOMAIN l
            THEN [l EXCEPT ![vault_key].ref_count = @ - bounded_decrement]
            ELSE l
    IN  IF trim(vault_key) = <<>> THEN [ledger |-> l, refs |-> 0]
        ELSE [ledger |-> after, refs |-> RefCount(after, vault_key)]

\* [ledger, refs]
decrement_vault_ref_in_tx(l, vault_key, decrement_by) ==
    LET bounded_decrement == IF decrement_by > 0 THEN decrement_by ELSE 0
        after ==
            IF vault_key \in DOMAIN l
            THEN [l EXCEPT ![vault_key].ref_count =
                      IF @ > bounded_decrement THEN @ - bounded_decrement ELSE 0]
            ELSE l
    IN  IF trim(vault_key) = <<>> THEN [ledger |-> l, refs |-> 0]
        ELSE [ledger |-> after, refs |-> RefCount(after, vault_key)]

\* ------------------------------------------------------------ transactions
\* db is [ok, items, ledger]; a failed step leaves ok = FALSE and the
\* transaction is rolled back by its caller
insert_item_in_tx(db, item) ==
    LET inc == increment_vault_ref_in_tx(db.ledger, item.vault_key, item.vault_path)
    IN  IF ~db.ok \/ item.id \in DOMAIN db.items \/ ~inc.ok
        THEN [db EXCEPT !.ok = FALSE]
        ELSE [ok |-> TRUE,
              items |-> Put(db.items, item.id,
                            [vault_key |-> item.vault_key, vault_path |-> item.vault_path]),
              ledger |-> inc.ledger]

RECURSIVE insert_items_in_tx(_, _)
insert_items_in_tx(db, batch) ==
    IF batch = <<>> THEN db
    ELSE insert_items_in_tx(insert_item_in_tx(db, Head(batch)), Tail(batch))

RECURSIVE decrement_all(_, _, _)
decrement_all(l, keys, counts) ==
    IF keys = {} THEN l
    ELSE LET k == CHOOSE x \in keys : TRUE
         IN  decrement_all(decrement_vault_ref_in_tx(l, k, counts[k]).ledger,
                           keys \ {k}, counts)

\* the transaction of delete_items_with_cleanup_internal:
\* [items, ledger, zero_ref_candidates]
delete_items_tx(it, l, item_ids) ==
    LET key_of(i) == it[item_ids[i]].vault_key
        hit(i) == item_ids[i] \in DOMAIN it /\ trim(key_of(i)) # <<>>
        keys == {key_of(i) : i \in {j \in 1..Len(item_ids) : hit(j)}}
        vault_counts_by_key ==
            [k \in keys |->
                Cardinality({i \in 1..Len(item_ids) : hit(i) /\ key_of(i) = k})]
        items_after == Drop(it, {item_ids[i] : i \in 1..Len(item_ids)})
        ledger_after == decrement_all(l, keys, vault_counts_by_key)
    IN  [items |-> items_after,
         ledger |-> ledger_after,
         zero_ref_candidates |->
            {k \in keys : /\ RefCount(ledger_after, k) = 0
                          /\ ItemRefs(items_after, k) = 0
                          /\ parse_vault_key(k).ok}]

\* the transaction of finalize_item_import: [ok, items, ledger]
finalize_item_import_tx(it, l, item_id, vault_key, vault_path) ==
    LET next_vault_key == trim(vault_key)
        current_vault_key == it[item_id].vault_key
        dec == IF trim(current_vault_key) # <<>> /\ current_vault_key # next_vault_key
               THEN decrement_vault_ref_in_tx(l, current_vault_key, 1).ledger
               ELSE l
        inc == IF current_vault_key # next_vault_key
               THEN increment_vault_ref_in_tx(dec, next_vault_key, vault_path)
               ELSE [ok |-> TRUE, ledger |-> dec]
    IN  IF item_id \notin DOMAIN it \/ next_vault_key = <<>> \/ vault_path = 0 \/ ~inc.ok
        THEN [ok |-> FALSE, items |-> it, ledger |-> l]
        ELSE [ok |-> TRUE,
              items |-> [it EXCEPT ![item_id] =
                            [vault_key |-> next_vault_key, vault_path |-> vault_path]],
              ledger |-> inc.ledger]

\* --------------------------------------------------------------- processes
\* None of an Option<u32>
NoneU32 == [some |-> FALSE, v |-> 0]

IdleProc ==
    [pc |-> "idle",
     todo |-> {},         \* pending_rows / zero_ref_candidates still to clean
     cur |-> <<>>,        \* vault_key of the row being cleaned
     name |-> <<>>,       \* vault_filename searched for
     paths |-> {},        \* existing_paths still to remove
     ok |-> TRUE,         \* cleanup_ok
     prune |-> {},        \* prune_keys / rows_to_prune
     rows |-> {},         \* history: the keys this sweep or cleanup took up
     failed |-> {},       \* history: the keys it logged a failed removal for
     counts |-> EmptyMap, \* counts_by_key of the backfill
     dir |-> 0,           \* month_dir
     path |-> 0,          \* final_path
     deduped |-> FALSE,
     generate_thumb |-> FALSE,
     width |-> 0,         \* width, height: 0 is None
     height |-> 0,
     thumb_status |-> "", \* "" before run_import_pipeline_internal sets it
     thumb_path |-> <<>>, \* the thumbnail's file name, <<>> is None
     resized |-> <<0, 0>>,\* resized_width, resized_height of the thumbnail written
     tx |-> [items |-> EmptyMap, ledger |-> EmptyMap],  \* the open transaction's view
     ins |-> <<>>,        \* items still to insert
     ids |-> <<>>,        \* item_ids still to delete
     decs |-> EmptyMap,   \* vault_counts_by_key still to decrement
     fin |-> <<>>,        \* <<item_id, next_vault_key, next_vault_path>>
     max_size |-> NoneU32]  \* max_size of generate_thumbnail


\* no ledger call recorded
NoCall ==
    [op |-> "none", key |-> <<>>, arg |-> 0, ok |-> TRUE, refs |-> 0, before |-> EmptyMap]

Init ==
    /\ items = EmptyMap
    /\ ledger = EmptyMap
    /\ blobs = [f \in PlaceKeys \X Buckets |-> "none"]
    /\ thumbs = {}
    /\ thumb_image = EmptyMap
    /\ month = 1
    /\ proc = [p \in Procs |-> IdleProc]
    /\ returned = {}
    /\ image = [d \in Digests |-> LargeImage]
    /\ call = NoCall
    /\ dirs = {}

At(p, pc) == proc[p].pc = pc
Set(p, r) == proc' = [proc EXCEPT ![p] = r]

\* variant: the walk over the month buckets stops at the first match
find_first_vault_file(fs, vault_filename) ==
    {b \in Buckets : /\ <<vault_filename, b>> \in DOMAIN fs
                     /\ fs[<<vault_filename, b>>] # "none"
                     /\ \A c \in 1..(b - 1) : fs[<<vault_filename, c>>] = "none"}

\* find_vault_files: the buckets holding a file of that name
find_vault_files(fs, vault_filename) ==
    {b \in Buckets : /\ <<vault_filename, b>> \in DOMAIN fs
                     /\ fs[<<vault_filename, b>>] # "none"}

\* the (vault_key, sha256, ext) columns a SELECT reads from a row
RowOf(l, k) == [vault_key |-> k, sha256 |-> l[k].sha256, ext |-> l[k].ext]

\* variant: initialize_db goes to the sweep without the backfill
BackfillReadSkips(p) ==
    /\ At(p, "idle")
    /\ Set(p, [proc[p] EXCEPT !.pc = "select"])
    /\ UNCHANGED <<items, ledger, blobs, thumbs, month, returned, image, call, dirs, thumb_image>>

\* ----------------------------------------------------------- initialize_db
\* insert_item, insert_items_batch, delete_items, finalize_item_import and
\* init_db all start with initialize_db: backfill, then sweep
\* backfill_vault_refs_if_needed, its reads: COUNT(*) and the SELECT over items
BackfillRead(p) ==
    /\ At(p, "idle")
    /\ LET keys == {items[i].vault_key : i \in {j \in DOMAIN items : items[j].vault_key # <<>>}}
       IN  IF DOMAIN ledger # {} \/ keys = {}
           THEN Set(p, [proc[p] EXCEPT !.pc = "select"])
           ELSE \E first \in [keys -> DOMAIN items] :
                   /\ \A k \in keys : items[first[k]].vault_key = k
                   /\ Set(p, [proc[p] EXCEPT
                          !.pc = "backfill_write",
                          !.counts = [k \in keys |->
                              [vault_path |-> items[first[k]].vault_path,
                               ref_count |-> ItemRefs(items, k)]]])
    /\ UNCHANGED <<items, ledger, blobs, thumbs, month, returned, image, call, dirs, thumb_image>>

\* variant: every key is written with ref_count 1
BackfillWriteOnes(p) ==
    /\ At(p, "backfill_write")
    /\ \E vault_key \in DOMAIN proc[p].counts :
          LET parsed == parse_vault_key(vault_key)
              rest == Drop(proc[p].counts, {vault_key})
          IN  /\ ledger' =
                    IF parsed.ok
                    THEN Put(ledger, vault_key,
                             [vault_path |-> proc[p].counts[vault_key].vault_path,
                              sha256 |-> parsed.sha256,
                              ext |-> parsed.ext,
                              ref_count |-> 1])
                    ELSE ledger
              /\ Set(p, [proc[p] EXCEPT
                     !.pc = IF DOMAIN rest = {} THEN "select" ELSE "backfill_write",
                     !.counts = rest])
    /\ UNCHANGED <<items, blobs, thumbs, month, returned, image, call, dirs, thumb_image>>

\* backfill_vault_refs_if_needed, the loop over counts_by_key: the next key is
\* skipped when it does not parse, else its row is written by an INSERT OR
\* REPLACE of its own
BackfillWrite(p) ==
    /\ At(p, "backfill_write")
    /\ \E vault_key \in DOMAIN proc[p].counts :
          LET parsed == parse_vault_key(vault_key)
              rest == Drop(proc[p].counts, {vault_key})
          IN  /\ ledger' =
                    IF parsed.ok
                    THEN Put(ledger, vault_key,
                             [vault_path |-> proc[p].counts[vault_key].vault_path,
                              sha256 |-> parsed.sha256,
                              ext |-> parsed.ext,
                              ref_count |-> proc[p].counts[vault_key].ref_count])
                    ELSE ledger
              /\ Set(p, [proc[p] EXCEPT
                     !.pc = IF DOMAIN rest = {} THEN "select" ELSE "backfill_write",
                     !.counts = rest])
    /\ UNCHANGED <<items, blobs, thumbs, month, returned, image, call, dirs, thumb_image>>

\* variant: the sweep selects the rows WHERE ref_count < 0
SweepSelectNegative(p) ==
    /\ At(p, "select")
    /\ LET pending_rows == {RowOf(ledger, k) : k \in {x \in DOMAIN ledger : ledger[x].ref_count < 0}}
       IN  IF pending_rows = {}
           THEN Set(p, [proc[p] EXCEPT !.pc = "ready"])
           ELSE Set(p, [proc[p] EXCEPT
                    !.pc = "find", !.todo = pending_rows, !.prune = {},
                    !.rows = {r.vault_key : r \in pending_rows}, !.failed = {}])
    /\ UNCHANGED <<items, ledger, blobs, thumbs, month, returned, image, call, dirs, thumb_image>>

\* cleanup_zero_ref_vault_files: SELECT ... WHERE ref_count <= 0
SweepSelect(p) ==
    /\ At(p, "select")
    /\ LET pending_rows == {RowOf(ledger, k) : k \in {x \in DOMAIN ledger : ledger[x].ref_count <= 0}}
       IN  IF pending_rows = {}
           THEN Set(p, [proc[p] EXCEPT !.pc = "ready"])
           ELSE Set(p, [proc[p] EXCEPT
                    !.pc = "find", !.todo = pending_rows, !.prune = {},
                    !.rows = {r.vault_key : r \in pending_rows}, !.failed = {}])
    /\ UNCHANGED <<items, ledger, blobs, thumbs, month, returned, image, call, dirs, thumb_image>>

\* cleanup_zero_ref_vault_files: the next pending row, find_vault_files
SweepFind(p) ==
    /\ At(p, "find")
    /\ \E row \in proc[p].todo :
          LET vault_filename == build_vault_filename(row.sha256, row.ext)
              existing_paths == find_vault_files(blobs, vault_filename)
          IN  Set(p, [proc[p] EXCEPT
                  !.pc = IF existing_paths = {} THEN "thumb" ELSE "rm",
                  !.todo = @ \ {row},
                  !.cur = row.vault_key,
                  !.name = vault_filename,
                  !.paths = existing_paths,
                  !.ok = TRUE])
    /\ UNCHANGED <<items, ledger, blobs, thumbs, month, returned, image, call, dirs, thumb_image>>

\* cleanup_zero_ref_vault_files: fs::remove_file succeeds
SweepRemoveOk(p) ==
    /\ At(p, "rm")
    /\ \E b \in proc[p].paths :
          /\ blobs[<<proc[p].name, b>>] # "none"
          /\ blobs' = [blobs EXCEPT ![<<proc[p].name, b>>] = "none"]
          /\ Set(p, [proc[p] EXCEPT
                 !.pc = IF proc[p].paths = {b} THEN "thumb" ELSE "rm",
                 !.paths = @ \ {b}])
    /\ UNCHANGED <<items, ledger, thumbs, month, returned, image, call, dirs, thumb_image>>

\* cleanup_zero_ref_vault_files: fs::remove_file fails (the file is gone, or
\* the operating system refuses)
SweepRemoveFail(p) ==
    /\ At(p, "rm")
    /\ \E b \in proc[p].paths :
          Set(p, [proc[p] EXCEPT
              !.pc = IF proc[p].paths = {b} THEN "thumb" ELSE "rm",
              !.paths = @ \ {b},
              !.ok = FALSE])
    /\ UNCHANGED <<items, ledger, blobs, thumbs, month, returned, image, call, dirs, thumb_image>>

\* variant: the key is pushed to prune_keys whatever cleanup_ok is
SweepAfterThumbPruneAll(p, cleanup_ok) ==
    LET prune_keys == proc[p].prune \cup {proc[p].cur}
    IN  Set(p, [proc[p] EXCEPT
            !.pc = IF proc[p].todo # {} THEN "find" ELSE "prune",
            !.cur = <<>>, !.name = <<>>, !.ok = TRUE,
            !.prune = prune_keys,
            !.failed = IF cleanup_ok THEN @ ELSE @ \cup {proc[p].cur}])

\* where the sweep goes after the thumbnail of the current row
SweepAfterThumb(p, cleanup_ok) ==
    LET prune_keys == IF cleanup_ok THEN proc[p].prune \cup {proc[p].cur} ELSE proc[p].prune
    IN  Set(p, [proc[p] EXCEPT
            !.pc = IF proc[p].todo # {} THEN "find"
                   ELSE IF prune_keys # {} THEN "prune" ELSE "ready",
            !.cur = <<>>, !.name = <<>>, !.ok = TRUE,
            !.prune = prune_keys,
            !.failed = IF cleanup_ok THEN @ ELSE @ \cup {proc[p].cur}])

\* remove_thumbnail_for_vault_key: Ok(false) when the thumbnail does not
\* exist, Ok(true) when it was removed; the files left under thumbs/
remove_thumbnail_for_vault_key(th, vault_key) ==
    th \ {thumb_filename_for_vault_key(vault_key).name}

\* cleanup_zero_ref_vault_files: remove_thumbnail_for_vault_key returns Ok
SweepThumbOk(p) ==
    /\ At(p, "thumb")
    /\ thumb_filename_for_vault_key(proc[p].cur).ok
    /\ thumbs' = remove_thumbnail_for_vault_key(thumbs, proc[p].cur)
    /\ thumb_image' = Drop(thumb_image, thumbs \ thumbs')
    /\ SweepAfterThumb(p, proc[p].ok)
    /\ UNCHANGED <<items, ledger, blobs, month, returned, image, call, dirs>>

\* cleanup_zero_ref_vault_files: remove_thumbnail_for_vault_key returns Err
SweepThumbFail(p) ==
    /\ At(p, "thumb")
    /\ SweepAfterThumb(p, FALSE)
    /\ UNCHANGED <<items, ledger, blobs, thumbs, month, returned, image, call, dirs, thumb_image>>

\* cleanup_zero_ref_vault_files: DELETE FROM vault_files WHERE vault_key = ?1
SweepPrune(p) ==
    /\ At(p, "prune")
    /\ \E k \in proc[p].prune :
          /\ ledger' = Drop(ledger, {k})
          /\ Set(p, [proc[p] EXCEPT
                 !.pc = IF proc[p].prune = {k} THEN "ready" ELSE "prune",
                 !.prune = @ \ {k}])
    /\ UNCHANGED <<items, blobs, thumbs, month, returned, image, call, dirs, thumb_image>>

\* init_db: initialize_db was the whole command
InitDbReturn(p) ==
    /\ At(p, "ready")
    /\ Set(p, IdleProc)
    /\ UNCHANGED <<items, ledger, blobs, thumbs, month, returned, image, call, dirs, thumb_image>>

\* -------------------------------------------------------- record lifecycle
\* insert_item (a batch of one) and insert_items_batch: one transaction,
\* rolled back as a whole when a step fails
InsertItems(p, batch) ==
    /\ At(p, "ready")
    /\ LET db == insert_items_in_tx([ok |-> TRUE, items |-> items, ledger |-> ledger], batch)
       IN  IF db.ok
           THEN items' = db.items /\ ledger' = db.ledger
           ELSE UNCHANGED <<items, ledger>>
    /\ Set(p, IdleProc)
    /\ UNCHANGED <<blobs, thumbs, month, returned, image, call, dirs, thumb_image>>

\* finalize_item_import: one transaction
FinalizeItemImport(p, item_id, vault_key, vault_path) ==
    /\ At(p, "ready")
    /\ LET db == finalize_item_import_tx(items, ledger, item_id, vault_key, vault_path)
       IN  items' = db.items /\ ledger' = db.ledger
    /\ Set(p, IdleProc)
    /\ UNCHANGED <<blobs, thumbs, month, returned, image, call, dirs, thumb_image>>

\* delete_items_with_cleanup_internal up to the commit of its transaction
DeleteItems(p, item_ids) ==
    /\ At(p, "ready")
    /\ LET db == delete_items_tx(items, ledger, item_ids)
           rows == {[vault_key |-> k,
                     sha256 |-> parse_vault_key(k).sha256,
                     ext |-> parse_vault_key(k).ext] : k \in db.zero_ref_candidates}
       IN  /\ items' = db.items
           /\ ledger' = db.ledger
           /\ IF rows = {}
              THEN Set(p, IdleProc)
              ELSE Set(p, [IdleProc EXCEPT
                       !.pc = "del_find", !.todo = rows,
                       !.rows = db.zero_ref_candidates])
    /\ UNCHANGED <<blobs, thumbs, month, returned, image, call, dirs, thumb_image>>

\* delete cleanup: the next zero_ref_candidate, find_vault_files
DeleteFind(p) ==
    /\ At(p, "del_find")
    /\ \E row \in proc[p].todo :
          LET vault_filename == build_vault_filename(row.sha256, row.ext)
              existing_paths == find_vault_files(blobs, vault_filename)
          IN  Set(p, [proc[p] EXCEPT
                  !.pc = IF existing_paths = {} THEN "del_thumb" ELSE "del_rm",
                  !.todo = @ \ {row},
                  !.cur = row.vault_key,
                  !.name = vault_filename,
                  !.paths = existing_paths,
                  !.ok = TRUE])
    /\ UNCHANGED <<items, ledger, blobs, thumbs, month, returned, image, call, dirs, thumb_image>>

\* delete cleanup: fs::remove_file succeeds
DeleteRemoveOk(p) ==
    /\ At(p, "del_rm")
    /\ \E b \in proc[p].paths :
          /\ blobs[<<proc[p].name, b>>] # "none"
          /\ blobs' = [blobs EXCEPT ![<<proc[p].name, b>>] = "none"]
          /\ Set(p, [proc[p] EXCEPT
                 !.pc = IF proc[p].paths = {b} THEN "del_thumb" ELSE "del_rm",
                 !.paths = @ \ {b}])
    /\ UNCHANGED <<items, ledger, thumbs, month, returned, image, call, dirs, thumb_image>>

\* delete cleanup: fs::remove_file fails
DeleteRemoveFail(p) ==
    /\ At(p, "del_rm")
    /\ \E b \in proc[p].paths :
          Set(p, [proc[p] EXCEPT
              !.pc = IF proc[p].paths = {b} THEN "del_thumb" ELSE "del_rm",
              !.paths = @ \ {b},
              !.ok = FALSE])
    /\ UNCHANGED <<items, ledger, blobs, thumbs, month, returned, image, call, dirs, thumb_image>>

\* where the delete cleanup goes after the thumbnail of the current candidate
DeleteAfterThumb(p, cleanup_ok) ==
    LET rows_to_prune == IF cleanup_ok THEN proc[p].prune \cup {proc[p].cur} ELSE proc[p].prune
    IN  IF proc[p].todo = {} /\ rows_to_prune = {}
        THEN Set(p, IdleProc)
        ELSE Set(p, [proc[p] EXCEPT
                 !.pc = IF proc[p].todo # {} THEN "del_find" ELSE "del_prune",
                 !.cur = <<>>, !.name = <<>>, !.ok = TRUE,
                 !.prune = rows_to_prune,
                 !.failed = IF cleanup_ok THEN @ ELSE @ \cup {proc[p].cur}])

\* delete cleanup: remove_thumbnail_for_vault_key returns Ok
DeleteThumbOk(p) ==
    /\ At(p, "del_thumb")
    /\ thumb_filename_for_vault_key(proc[p].cur).ok
    /\ thumbs' = remove_thumbnail_for_vault_key(thumbs, proc[p].cur)
    /\ thumb_image' = Drop(thumb_image, thumbs \ thumbs')
    /\ DeleteAfterThumb(p, proc[p].ok)
    /\ UNCHANGED <<items, ledger, blobs, month, returned, image, call, dirs>>

\* delete cleanup: remove_thumbnail_for_vault_key returns Err
DeleteThumbFail(p) ==
    /\ At(p, "del_thumb")
    /\ DeleteAfterThumb(p, FALSE)
    /\ UNCHANGED <<items, ledger, blobs, thumbs, month, returned, image, call, dirs, thumb_image>>

\* delete cleanup: the prune transaction over rows_to_prune
DeletePrune(p) ==
    /\ At(p, "del_prune")
    /\ ledger' = Drop(ledger, proc[p].prune)
    /\ Set(p, IdleProc)
    /\ UNCHANGED <<items, blobs, thumbs, month, returned, image, call, dirs, thumb_image>>

\* --------------------------------------------------------------- blob store
\* import_with_metadata_detailed: ensure_current_month_directory, then the
\* digest and the file name from an extension already chosen
PlaceStart(p, content, ext) ==
    /\ At(p, "idle")
    /\ Set(p, [IdleProc EXCEPT
           !.pc = "pl_find",
           !.name = build_vault_filename(sha256_for(content), normalize_ext(ext)),
           !.dir = month])
    /\ dirs' = dirs \cup {month}
    /\ UNCHANGED <<items, ledger, blobs, thumbs, month, returned, image, call, thumb_image>>

\* variant: the dedupe check looks in the current month directory only
PlaceFindCurrentMonth(p) ==
    /\ At(p, "pl_find")
    /\ LET matches == find_vault_files(blobs, proc[p].name) \cap {proc[p].dir}
       IN  IF matches = {}
           THEN Set(p, [proc[p] EXCEPT
                    !.pc = "pl_create", !.path = proc[p].dir, !.deduped = FALSE])
           ELSE \E b \in matches :
                    Set(p, [proc[p] EXCEPT
                        !.pc = "pl_stat", !.path = b, !.dir = 0, !.deduped = TRUE])
    /\ UNCHANGED <<items, ledger, blobs, thumbs, month, returned, image, call, dirs, thumb_image>>

\* import_with_metadata_detailed: find_existing_vault_file, the dedupe check
PlaceFind(p) ==
    /\ At(p, "pl_find")
    /\ LET matches == find_vault_files(blobs, proc[p].name)
       IN  IF matches = {}
           THEN Set(p, [proc[p] EXCEPT
                    !.pc = "pl_create", !.path = proc[p].dir, !.deduped = FALSE])
           ELSE \E b \in matches :
                    Set(p, [proc[p] EXCEPT
                        !.pc = "pl_stat", !.path = b, !.dir = 0, !.deduped = TRUE])
    /\ UNCHANGED <<items, ledger, blobs, thumbs, month, returned, image, call, dirs, thumb_image>>

\* import_with_metadata_detailed: File::create (or the open of fs::copy)
\* creates or truncates the destination
PlaceCreate(p) ==
    /\ At(p, "pl_create")
    /\ blobs' = [blobs EXCEPT ![<<proc[p].name, proc[p].dir>>] = "partial"]
    /\ Set(p, [proc[p] EXCEPT !.pc = "pl_write"])
    /\ UNCHANGED <<items, ledger, thumbs, month, returned, image, call, dirs, thumb_image>>

\* variant: the blob store counts the file it has written in vault_files
PlaceWriteCounts(p) ==
    /\ At(p, "pl_write")
    /\ blobs' = [blobs EXCEPT ![<<proc[p].name, proc[p].dir>>] =
                    IF @ = "none" THEN "none" ELSE "full"]
    /\ ledger' = increment_vault_ref_in_tx(ledger, proc[p].name, proc[p].dir).ledger
    /\ Set(p, [proc[p] EXCEPT !.pc = "pl_stat"])
    /\ UNCHANGED <<items, thumbs, month, returned, image, call, dirs, thumb_image>>

\* import_with_metadata_detailed: write_all and flush complete; a file
\* unlinked meanwhile stays unlinked
PlaceWrite(p) ==
    /\ At(p, "pl_write")
    /\ blobs' = [blobs EXCEPT ![<<proc[p].name, proc[p].dir>>] =
                    IF @ = "none" THEN "none" ELSE "full"]
    /\ Set(p, [proc[p] EXCEPT !.pc = "pl_stat"])
    /\ UNCHANGED <<items, ledger, thumbs, month, returned, image, call, dirs, thumb_image>>

\* import_with_metadata_detailed: fs::metadata of final_path and the return,
\* to the command (import_to_vault, import_bytes_to_vault) or, when run is
\* true, to run_import_pipeline_internal, which goes on
PlaceStat(p, run) ==
    /\ At(p, "pl_stat")
    /\ blobs[<<proc[p].name, proc[p].path>>] # "none"
    /\ returned' = returned \cup {<<proc[p].name, proc[p].path>>}
    /\ IF run
       THEN Set(p, [proc[p] EXCEPT !.pc = "run_dims", !.dir = 0])
       ELSE Set(p, IdleProc)
    /\ UNCHANGED <<items, ledger, blobs, thumbs, month, image, call, dirs, thumb_image>>

\* round(a / b) of f64 for positive integers, halves away from zero
RoundDiv(a, b) == (2 * a + b) \div (2 * b)
Max(a, b) == IF a > b THEN a ELSE b

\* variant: a failed thumbnail fails the run
RunThumbErrorFailsRun(p, left) ==
    /\ At(p, "pl_thumb")
    /\ UNCHANGED thumbs
    /\ Set(p, IdleProc)
    /\ UNCHANGED <<items, ledger, blobs, month, returned, image, call, dirs, thumb_image>>

\* generate_thumbnail_internal: target_width and target_height
target_size(width, height, max_size) ==
    LET bounded_max == Max(max_size, 1)
        longest_side == Max(width, height)
    IN  IF longest_side > bounded_max
        THEN <<Max(RoundDiv(width * bounded_max, longest_side), 1),
               Max(RoundDiv(height * bounded_max, longest_side), 1)>>
        ELSE <<width, height>>

\* DynamicImage::resize(nwidth, nheight, filter) keeps the aspect ratio: the
\* image is scaled by the smaller of nwidth / width and nheight / height, each
\* side rounded and at least 1
resize(width, height, nwidth, nheight) ==
    IF nwidth * height <= nheight * width
    THEN <<Max(nwidth, 1), Max(RoundDiv(height * nwidth, width), 1)>>
    ELSE <<Max(RoundDiv(width * nheight, height), 1), Max(nheight, 1)>>

\* the sides of the thumbnail generate_thumbnail_internal encodes
thumbnail_size(width, height, max_size) ==
    LET target == target_size(width, height, max_size)
    IN  IF Max(width, height) > Max(max_size, 1)
        THEN resize(width, height, target[1], target[2])
        ELSE <<width, height>>

\* the sides of the thumbnail the pipeline makes of LargeImage
LargeThumb == thumbnail_size(LargeImage[1], LargeImage[2], IMPORT_THUMB_MAX_SIZE)

\* variant: thumb_status starts as DEFAULT_THUMB_STATUS whatever the extension
RunNotImagePending(p) ==
    /\ At(p, "run_dims")
    /\ ~is_image_extension(parse_vault_key(proc[p].name).ext)
    /\ Set(p, [proc[p] EXCEPT !.pc = "run_done", !.thumb_status = "pending"])
    /\ UNCHANGED <<items, ledger, blobs, thumbs, month, returned, image, call, dirs, thumb_image>>

\* run_import_pipeline_internal: the extension is no image extension,
\* thumb_status is "ready" and nothing else is done
RunNotImage(p) ==
    /\ At(p, "run_dims")
    /\ ~is_image_extension(parse_vault_key(proc[p].name).ext)
    /\ Set(p, [proc[p] EXCEPT !.pc = "run_done", !.thumb_status = "ready"])
    /\ UNCHANGED <<items, ledger, blobs, thumbs, month, returned, image, call, dirs, thumb_image>>

\* run_import_pipeline_internal: read_image_dimensions returns Err (the file
\* is gone, cannot be opened, or is no image a decoder reads)
RunDimensionsErr(p) ==
    /\ At(p, "run_dims")
    /\ is_image_extension(parse_vault_key(proc[p].name).ext)
    /\ Set(p, [proc[p] EXCEPT !.pc = "run_done", !.thumb_status = "error"])
    /\ UNCHANGED <<items, ledger, blobs, thumbs, month, returned, image, call, dirs, thumb_image>>

\* variant: an image is skipped when its longer side is below the threshold
should_skip_thumb_below(w, h) == Max(w, h) < IMPORT_THUMB_MAX_SIZE

should_skip_thumb(w, h) == Max(w, h) <= IMPORT_THUMB_MAX_SIZE

\* run_import_pipeline_internal: read_image_dimensions returns Ok((w, h));
\* skipped, pending, or on to the thumbnail
RunDimensionsOk(p, generate_thumb) ==
    /\ At(p, "run_dims")
    /\ is_image_extension(parse_vault_key(proc[p].name).ext)
    /\ blobs[<<proc[p].name, proc[p].path>>] # "none"
    /\ image[parse_vault_key(proc[p].name).sha256] # NotDecodable
    /\ LET w == image[parse_vault_key(proc[p].name).sha256][1]
           h == image[parse_vault_key(proc[p].name).sha256][2]
       IN  Set(p, [proc[p] EXCEPT
               !.generate_thumb = generate_thumb,
               !.width = w,
               !.height = h,
               !.pc = IF should_skip_thumb(w, h) \/ ~generate_thumb
                      THEN "run_done" ELSE "pl_thumb",
               !.thumb_status = IF should_skip_thumb(w, h) THEN "skipped"
                                ELSE "pending"])
    /\ UNCHANGED <<items, ledger, blobs, thumbs, month, returned, image, call, dirs, thumb_image>>

\* run_import_pipeline_internal: thumb_output_path_for_vault_key and
\* generate_thumbnail_internal return Ok; an existing thumbnail is kept as it
\* is, otherwise the image is decoded, resized and written
RunThumbOk(p) ==
    /\ At(p, "pl_thumb")
    /\ blobs[<<proc[p].name, proc[p].path>>] # "none"
    /\ thumb_filename_for_vault_key(proc[p].name).ok
    /\ LET output == thumb_filename_for_vault_key(proc[p].name).name
           size == image[parse_vault_key(proc[p].name).sha256]
       IN  IF output \in thumbs
           THEN /\ UNCHANGED <<thumbs, thumb_image>>
                /\ Set(p, [proc[p] EXCEPT
                       !.pc = "run_done", !.thumb_status = "ready",
                       !.thumb_path = output])
           ELSE /\ blobs[<<proc[p].name, proc[p].path>>] = "full"
                /\ size # NotDecodable
                /\ thumbs' = thumbs \cup {output}
                /\ thumb_image' = Put(thumb_image, output,
                       thumbnail_size(size[1], size[2], IMPORT_THUMB_MAX_SIZE))
                /\ Set(p, [proc[p] EXCEPT
                       !.pc = "run_done", !.thumb_status = "ready",
                       !.thumb_path = output,
                       !.resized = thumbnail_size(size[1], size[2], IMPORT_THUMB_MAX_SIZE)])
    /\ UNCHANGED <<items, ledger, blobs, month, returned, image, call, dirs>>

\* variant: thumb_path is set before the thumbnail is generated and stays
\* when the thumbnail fails
RunThumbErrorKeepsPath(p, left) ==
    /\ At(p, "pl_thumb")
    /\ IF left
       THEN /\ blobs[<<proc[p].name, proc[p].path>>] = "full"
            /\ image[parse_vault_key(proc[p].name).sha256] # NotDecodable
            /\ thumb_filename_for_vault_key(proc[p].name).name \notin thumbs
            /\ thumbs' = thumbs \cup {thumb_filename_for_vault_key(proc[p].name).name}
            /\ thumb_image' = Put(thumb_image,
                   thumb_filename_for_vault_key(proc[p].name).name, NotDecodable)
       ELSE UNCHANGED <<thumbs, thumb_image>>
    /\ Set(p, [proc[p] EXCEPT !.pc = "run_done", !.thumb_status = "error",
           !.thumb_path = thumb_filename_for_vault_key(proc[p].name).name])
    /\ UNCHANGED <<items, ledger, blobs, month, returned, image, call, dirs>>

\* run_import_pipeline_internal: the thumbnail path or the thumbnail failed,
\* thumb_status = error; left: File::create had made the output file before
\* the write failed
RunThumbError(p, left) ==
    /\ At(p, "pl_thumb")
    /\ IF left
       THEN /\ blobs[<<proc[p].name, proc[p].path>>] = "full"
            /\ image[parse_vault_key(proc[p].name).sha256] # NotDecodable
            /\ thumb_filename_for_vault_key(proc[p].name).name \notin thumbs
            /\ thumbs' = thumbs \cup {thumb_filename_for_vault_key(proc[p].name).name}
            /\ thumb_image' = Put(thumb_image,
                   thumb_filename_for_vault_key(proc[p].name).name, NotDecodable)
       ELSE UNCHANGED <<thumbs, thumb_image>>
    /\ Set(p, [proc[p] EXCEPT !.pc = "run_done", !.thumb_status = "error"])
    /\ UNCHANGED <<items, ledger, blobs, month, returned, image, call, dirs>>

\* run_import_pipeline_internal: Ok(ImportPipelineResult)
RunReturn(p) ==
    /\ At(p, "run_done")
    /\ Set(p, IdleProc)
    /\ UNCHANGED <<items, ledger, blobs, thumbs, month, returned, image, call, dirs, thumb_image>>

\* remove_from_vault: find_vault_files, Ok(false) when nothing matches
RemoveFromVault(p, sha256, ext) ==
    /\ At(p, "idle")
    /\ LET vault_filename == build_vault_filename(sha256, ext)
           existing_paths == find_vault_files(blobs, vault_filename)
       IN  /\ existing_paths # {}
           /\ Set(p, [IdleProc EXCEPT
                  !.pc = "rv_rm", !.name = vault_filename, !.paths = existing_paths])
    /\ UNCHANGED <<items, ledger, blobs, thumbs, month, returned, image, call, dirs, thumb_image>>

\* remove_from_vault: fs::remove_file succeeds
RemoveFromVaultStep(p) ==
    /\ At(p, "rv_rm")
    /\ \E b \in proc[p].paths :
          /\ blobs[<<proc[p].name, b>>] # "none"
          /\ blobs' = [blobs EXCEPT ![<<proc[p].name, b>>] = "none"]
          /\ IF proc[p].paths = {b}
             THEN Set(p, IdleProc)
             ELSE Set(p, [proc[p] EXCEPT !.paths = @ \ {b}])
    /\ UNCHANGED <<items, ledger, thumbs, month, returned, image, call, dirs, thumb_image>>

\* ------------------------------------------------------------- environment
\* a command stops where it is: the process is killed, or the call it is at
\* returns Err and the command propagates it with `?`; an open transaction
\* is rolled back
Abort(p) ==
    /\ ~At(p, "idle")
    /\ Set(p, IdleProc)
    /\ UNCHANGED <<items, ledger, blobs, thumbs, month, returned, image, call, dirs, thumb_image>>

\* import_with_metadata_detailed returns Err: find_existing_vault_file,
\* fs::copy, File::create, write_all, flush, fs::metadata or path_to_string
\* failed, and what is on the disk stays there
PlacePcs == {"pl_find", "pl_create", "pl_write", "pl_stat"}
PlaceFail(p) ==
    /\ proc[p].pc \in PlacePcs
    /\ Set(p, IdleProc)
    /\ UNCHANGED <<items, ledger, blobs, thumbs, month, returned, image, call, dirs, thumb_image>>

\* the clock moves into the next month
Tick ==
    /\ month < MaxBucket
    /\ month' = month + 1
    /\ UNCHANGED <<items, ledger, blobs, thumbs, proc, returned, image, call, dirs, thumb_image>>

\* the commands on the database: initialize_db, then the transaction, then
\* the cleanup of a delete
StepDb(p, keys) ==
    \/ BackfillRead(p) \/ BackfillWrite(p)
    \/ SweepSelect(p) \/ SweepFind(p) \/ SweepRemoveOk(p) \/ SweepRemoveFail(p)
    \/ SweepThumbOk(p) \/ SweepThumbFail(p) \/ SweepPrune(p) \/ InitDbReturn(p)
    \/ \E batch \in SeqsUpTo(ItemInputs(keys), MaxBatch) : InsertItems(p, batch)
    \/ \E i \in ItemIds, k \in keys, b \in FinalizePaths : FinalizeItemImport(p, i, k, b)
    \/ \E ids \in SeqsUpTo(ItemIds, MaxBatch) : DeleteItems(p, ids)
    \/ DeleteFind(p) \/ DeleteRemoveOk(p) \/ DeleteRemoveFail(p)
    \/ DeleteThumbOk(p) \/ DeleteThumbFail(p) \/ DeletePrune(p)
    \/ Abort(p)

\* import_with_metadata_detailed; thumb is whether the run goes on to a
\* thumbnail
PlaceSteps(p, exts, thumb) ==
    \/ \E c \in Contents, e \in exts : PlaceStart(p, c, e)
    \/ PlaceFind(p) \/ PlaceCreate(p) \/ PlaceWrite(p)
    \/ \E t \in thumb : PlaceStat(p, t)

StepPlace(p, thumb) == PlaceSteps(p, RawExts, thumb)

\* run_import_pipeline_internal after the placement
StepThumb(p) ==
    \/ RunDimensionsErr(p)
    \/ \E g \in BOOLEAN : RunDimensionsOk(p, g)
    \/ RunThumbOk(p)
    \/ \E left \in BOOLEAN : RunThumbError(p, left)
    \/ RunReturn(p)

StepRemove(p) ==
    \/ \E c \in Contents, e \in RawExts : RemoveFromVault(p, sha256_for(c), e)
    \/ RemoveFromVaultStep(p)

\* callers interleave at every statement and filesystem call: imports that
\* ask for no thumbnail, inserts, finalizes, deletes with their cleanup and
\* the sweep every command starts with
Next == Tick \/ \E p \in Procs : StepDb(p, CoreKeys) \/ StepPlace(p, {FALSE})

Spec == Init /\ [][Next]_vars

\* no other caller is inside a command
Quiet(p) == \A q \in Procs \ {p} : At(q, "idle")

\* every command, one after the other
NextSeq ==
    \/ Tick
    \/ \E p \in {q \in Procs : Quiet(q)} :
          StepDb(p, AllKeys) \/ StepPlace(p, BOOLEAN) \/ StepThumb(p) \/ StepRemove(p)

SpecSeq == Init /\ [][NextSeq]_vars

\* ------------------------------------------- transactions, by statement
\* The transactions of insert_item, insert_items_batch, delete_items and
\* finalize_item_import one statement at a time.  proc[p].tx is what the open
\* transaction sees; items and ledger are what is durable.  A statement that
\* fails makes the command return through `?`, the Transaction is dropped
\* and rolled back; a killed process (Abort) leaves the journal to do the same.
CallRecord(op, key, arg, ok, refs, before) ==
    [op |-> op, key |-> key, arg |-> arg, ok |-> ok, refs |-> refs, before |-> before]

\* insert_item, insert_items_batch: connection.transaction()
TxInsertBegin(p, batch) ==
    /\ At(p, "ready")
    /\ Set(p, [IdleProc EXCEPT
           !.pc = "tx_ins_row",
           !.tx = [items |-> items, ledger |-> ledger],
           !.ins = batch])
    /\ UNCHANGED <<items, ledger, blobs, thumbs, month, returned, image, call, dirs, thumb_image>>

\* variant: the INSERT is executed on the connection, outside the transaction
TxInsertRowAutocommit(p) ==
    /\ At(p, "tx_ins_row")
    /\ LET item == Head(proc[p].ins)
       IN  IF item.id \in DOMAIN items
           THEN Set(p, IdleProc) /\ UNCHANGED items
           ELSE /\ items' = Put(items, item.id,
                        [vault_key |-> item.vault_key, vault_path |-> item.vault_path])
                /\ Set(p, [proc[p] EXCEPT !.pc = "tx_ins_inc", !.tx.items = items'])
    /\ UNCHANGED <<ledger, blobs, thumbs, month, returned, image, call, dirs, thumb_image>>

\* insert_item_in_tx: INSERT INTO items; the primary key rejects a second row
\* of the same id
TxInsertRow(p) ==
    /\ At(p, "tx_ins_row")
    /\ LET item == Head(proc[p].ins)
       IN  IF item.id \in DOMAIN proc[p].tx.items
           THEN Set(p, IdleProc)
           ELSE Set(p, [proc[p] EXCEPT
                    !.pc = "tx_ins_inc",
                    !.tx.items = Put(@, item.id,
                        [vault_key |-> item.vault_key, vault_path |-> item.vault_path])])
    /\ UNCHANGED <<items, ledger, blobs, thumbs, month, returned, image, call, dirs, thumb_image>>

\* insert_item_in_tx: increment_vault_ref_in_tx, then the next item or the
\* commit
TxInsertIncrement(p) ==
    /\ At(p, "tx_ins_inc")
    /\ LET item == Head(proc[p].ins)
           r == increment_vault_ref_in_tx(proc[p].tx.ledger, item.vault_key, item.vault_path)
       IN  /\ call' = CallRecord("increment", item.vault_key, item.vault_path,
                                 r.ok, 0, proc[p].tx.ledger)
           /\ IF ~r.ok
              THEN Set(p, IdleProc)
              ELSE Set(p, [proc[p] EXCEPT
                       !.pc = IF Tail(proc[p].ins) = <<>> THEN "tx_commit" ELSE "tx_ins_row",
                       !.tx.ledger = r.ledger,
                       !.ins = Tail(@)])
    /\ UNCHANGED <<items, ledger, blobs, thumbs, month, returned, image, dirs, thumb_image>>

\* delete_items_with_cleanup_internal: connection.transaction() and the loop
\* that reads every id's row and counts its key in vault_counts_by_key
TxDeleteBegin(p, item_ids) ==
    /\ At(p, "ready")
    /\ LET key_of(i) == items[item_ids[i]].vault_key
           hit(i) == item_ids[i] \in DOMAIN items /\ trim(key_of(i)) # <<>>
           keys == {key_of(i) : i \in {j \in 1..Len(item_ids) : hit(j)}}
           vault_counts_by_key ==
               [k \in keys |->
                   Cardinality({i \in 1..Len(item_ids) : hit(i) /\ key_of(i) = k})]
       IN  Set(p, [IdleProc EXCEPT
               !.pc = "tx_del_row",
               !.tx = [items |-> items, ledger |-> ledger],
               !.ids = item_ids,
               !.decs = vault_counts_by_key])
    /\ UNCHANGED <<items, ledger, blobs, thumbs, month, returned, image, call, dirs, thumb_image>>

\* delete_items_with_cleanup_internal: DELETE FROM items WHERE id = ?1
TxDeleteRow(p) ==
    /\ At(p, "tx_del_row")
    /\ Set(p, [proc[p] EXCEPT
           !.pc = IF Tail(proc[p].ids) # <<>> THEN "tx_del_row"
                  ELSE IF DOMAIN proc[p].decs # {} THEN "tx_del_dec" ELSE "tx_commit",
           !.tx.items = Drop(@, {Head(proc[p].ids)}),
           !.ids = Tail(@)])
    /\ UNCHANGED <<items, ledger, blobs, thumbs, month, returned, image, call, dirs, thumb_image>>

\* variant: the files of a candidate are removed as soon as its count is 0,
\* inside the transaction
TxDeleteDecrementRemoves(p) ==
    /\ At(p, "tx_del_dec")
    /\ \E vault_key \in DOMAIN proc[p].decs :
          LET decrement_by == proc[p].decs[vault_key]
              r == decrement_vault_ref_in_tx(proc[p].tx.ledger, vault_key, decrement_by)
              remaining_item_refs == ItemRefs(proc[p].tx.items, vault_key)
              parsed == parse_vault_key(vault_key)
              candidate == r.refs = 0 /\ remaining_item_refs = 0 /\ parsed.ok
          IN  /\ call' = CallRecord("decrement", vault_key, decrement_by,
                                    TRUE, r.refs, proc[p].tx.ledger)
              /\ blobs' = [f \in DOMAIN blobs |->
                            IF candidate /\ f[1] = build_vault_filename(parsed.sha256, parsed.ext)
                            THEN "none" ELSE blobs[f]]
              /\ Set(p, [proc[p] EXCEPT
                     !.pc = IF DOMAIN proc[p].decs = {vault_key}
                            THEN "tx_commit" ELSE "tx_del_dec",
                     !.tx.ledger = r.ledger,
                     !.decs = Drop(@, {vault_key}),
                     !.todo = IF candidate
                              THEN @ \cup {[vault_key |-> vault_key,
                                            sha256 |-> parsed.sha256,
                                            ext |-> parsed.ext]}
                              ELSE @,
                     !.rows = IF candidate THEN @ \cup {vault_key} ELSE @])
    /\ UNCHANGED <<items, ledger, thumbs, month, returned, image, dirs, thumb_image>>

\* variant: the candidate is chosen by the count alone, without COUNT(*) of
\* the rows left
TxDeleteDecrementTrustsCount(p) ==
    /\ At(p, "tx_del_dec")
    /\ \E vault_key \in DOMAIN proc[p].decs :
          LET decrement_by == proc[p].decs[vault_key]
              r == decrement_vault_ref_in_tx(proc[p].tx.ledger, vault_key, decrement_by)
              remaining_item_refs == ItemRefs(proc[p].tx.items, vault_key)
              parsed == parse_vault_key(vault_key)
              candidate == r.refs = 0 /\ parsed.ok
          IN  /\ call' = CallRecord("decrement", vault_key, decrement_by,
                                    TRUE, r.refs, proc[p].tx.ledger)
              /\ Set(p, [proc[p] EXCEPT
                     !.pc = IF DOMAIN proc[p].decs = {vault_key}
                            THEN "tx_commit" ELSE "tx_del_dec",
                     !.tx.ledger = r.ledger,
                     !.decs = Drop(@, {vault_key}),
                     !.todo = IF candidate
                              THEN @ \cup {[vault_key |-> vault_key,
                                            sha256 |-> parsed.sha256,
                                            ext |-> parsed.ext]}
                              ELSE @,
                     !.rows = IF candidate THEN @ \cup {vault_key} ELSE @])
    /\ UNCHANGED <<items, ledger, blobs, thumbs, month, returned, image, dirs, thumb_image>>

\* delete_items_with_cleanup_internal: decrement_vault_ref_in_tx for the next
\* key of the map, COUNT(*) of the rows left, and the candidate for cleanup
TxDeleteDecrement(p) ==
    /\ At(p, "tx_del_dec")
    /\ \E vault_key \in DOMAIN proc[p].decs :
          LET decrement_by == proc[p].decs[vault_key]
              r == decrement_vault_ref_in_tx(proc[p].tx.ledger, vault_key, decrement_by)
              remaining_item_refs == ItemRefs(proc[p].tx.items, vault_key)
              parsed == parse_vault_key(vault_key)
              candidate == r.refs = 0 /\ remaining_item_refs = 0 /\ parsed.ok
          IN  /\ call' = CallRecord("decrement", vault_key, decrement_by,
                                    TRUE, r.refs, proc[p].tx.ledger)
              /\ Set(p, [proc[p] EXCEPT
                     !.pc = IF DOMAIN proc[p].decs = {vault_key}
                            THEN "tx_commit" ELSE "tx_del_dec",
                     !.tx.ledger = r.ledger,
                     !.decs = Drop(@, {vault_key}),
                     !.todo = IF candidate
                              THEN @ \cup {[vault_key |-> vault_key,
                                            sha256 |-> parsed.sha256,
                                            ext |-> parsed.ext]}
                              ELSE @,
                     !.rows = IF candidate THEN @ \cup {vault_key} ELSE @])
    /\ UNCHANGED <<items, ledger, blobs, thumbs, month, returned, image, dirs, thumb_image>>

\* finalize_item_import: connection.transaction(), the read of the item's
\* current key and the check of the trimmed input
TxFinalizeBegin(p, item_id, vault_key, vault_path) ==
    /\ At(p, "ready")
    /\ LET next_vault_key == trim(vault_key)
       IN  IF item_id \notin DOMAIN items \/ next_vault_key = <<>> \/ vault_path = 0
           THEN Set(p, IdleProc)
           ELSE Set(p, [IdleProc EXCEPT
                    !.pc = "tx_fin_dec",
                    !.tx = [items |-> items, ledger |-> ledger],
                    !.fin = <<item_id, next_vault_key, vault_path>>])
    /\ UNCHANGED <<items, ledger, blobs, thumbs, month, returned, image, call, dirs, thumb_image>>

\* variant: the old key is left as it is
TxFinalizeKeepsOld(p) ==
    /\ At(p, "tx_fin_dec")
    /\ Set(p, [proc[p] EXCEPT !.pc = "tx_fin_inc"])
    /\ UNCHANGED <<items, ledger, blobs, thumbs, month, returned, image, call, dirs, thumb_image>>

\* finalize_item_import: decrement_vault_ref_in_tx(current_vault_key, 1) when
\* the current key is not empty and differs from the next one
TxFinalizeDecrement(p) ==
    /\ At(p, "tx_fin_dec")
    /\ LET current_vault_key == proc[p].tx.items[proc[p].fin[1]].vault_key
           next_vault_key == proc[p].fin[2]
           r == decrement_vault_ref_in_tx(proc[p].tx.ledger, current_vault_key, 1)
       IN  IF trim(current_vault_key) # <<>> /\ current_vault_key # next_vault_key
           THEN /\ call' = CallRecord("decrement", current_vault_key, 1,
                                      TRUE, r.refs, proc[p].tx.ledger)
                /\ Set(p, [proc[p] EXCEPT !.pc = "tx_fin_inc", !.tx.ledger = r.ledger])
           ELSE /\ UNCHANGED call
                /\ Set(p, [proc[p] EXCEPT !.pc = "tx_fin_inc"])
    /\ UNCHANGED <<items, ledger, blobs, thumbs, month, returned, image, dirs, thumb_image>>

\* finalize_item_import: increment_vault_ref_in_tx(next_vault_key) when the
\* keys differ
TxFinalizeIncrement(p) ==
    /\ At(p, "tx_fin_inc")
    /\ LET current_vault_key == proc[p].tx.items[proc[p].fin[1]].vault_key
           next_vault_key == proc[p].fin[2]
           r == increment_vault_ref_in_tx(proc[p].tx.ledger, next_vault_key, proc[p].fin[3])
       IN  IF current_vault_key # next_vault_key
           THEN /\ call' = CallRecord("increment", next_vault_key, proc[p].fin[3],
                                      r.ok, 0, proc[p].tx.ledger)
                /\ IF ~r.ok
                   THEN Set(p, IdleProc)
                   ELSE Set(p, [proc[p] EXCEPT
                            !.pc = "tx_fin_update", !.tx.ledger = r.ledger])
           ELSE /\ UNCHANGED call
                /\ Set(p, [proc[p] EXCEPT !.pc = "tx_fin_update"])
    /\ UNCHANGED <<items, ledger, blobs, thumbs, month, returned, image, dirs, thumb_image>>

\* finalize_item_import: UPDATE items SET vault_key, vault_path WHERE id
TxFinalizeUpdate(p) ==
    /\ At(p, "tx_fin_update")
    /\ Set(p, [proc[p] EXCEPT
           !.pc = "tx_commit",
           !.tx.items = [@ EXCEPT ![proc[p].fin[1]] =
                            [vault_key |-> proc[p].fin[2], vault_path |-> proc[p].fin[3]]]])
    /\ UNCHANGED <<items, ledger, blobs, thumbs, month, returned, image, call, dirs, thumb_image>>

\* transaction.commit(): what the transaction saw becomes durable; a delete
\* goes on to the cleanup of its candidates
TxCommit(p) ==
    /\ At(p, "tx_commit")
    /\ items' = proc[p].tx.items
    /\ ledger' = proc[p].tx.ledger
    /\ IF proc[p].todo = {}
       THEN Set(p, IdleProc)
       ELSE Set(p, [IdleProc EXCEPT
                !.pc = "del_find", !.todo = proc[p].todo, !.rows = proc[p].rows])
    /\ UNCHANGED <<blobs, thumbs, month, returned, image, call, dirs, thumb_image>>

\* the commands on the database, one after the other, on a vault whose files
\* are gone: a second connection cannot write while a transaction is open
NextTx ==
    \E p \in {q \in Procs : Quiet(q)} :
        \/ BackfillRead(p) \/ BackfillWrite(p)
        \/ SweepSelect(p) \/ SweepFind(p)
        \/ SweepThumbOk(p) \/ SweepThumbFail(p) \/ SweepPrune(p) \/ InitDbReturn(p)
        \/ \E batch \in SeqsUpTo(ItemInputs(AllKeys), MaxBatch) : TxInsertBegin(p, batch)
        \/ TxInsertRow(p) \/ TxInsertIncrement(p)
        \/ \E ids \in SeqsUpTo(ItemIds, MaxBatch) : TxDeleteBegin(p, ids)
        \/ TxDeleteRow(p) \/ TxDeleteDecrement(p)
        \/ \E i \in ItemIds, k \in AllKeys, b \in FinalizePaths : TxFinalizeBegin(p, i, k, b)
        \/ TxFinalizeDecrement(p) \/ TxFinalizeIncrement(p) \/ TxFinalizeUpdate(p)
        \/ TxCommit(p)
        \/ DeleteFind(p) \/ DeleteThumbOk(p) \/ DeleteThumbFail(p) \/ DeletePrune(p)
        \/ Abort(p)

SpecTx == Init /\ [][NextTx]_vars

\* ------------------------------------------------------------ ledger calls
\* increment_vault_ref_in_tx and decrement_vault_ref_in_tx on their own, in
\* one open transaction, with every kind of key token and every decrement
PaddedKey == <<" ", "a", ".", "j", "p", "g">>
LedgerKeys ==
    PlaceKeys \cup {PaddedKey, EmptyKey, <<" ">>, BadKey, <<".", "a">>, <<"a", ".">>}
LedgerPaths == {1, 2}
Decrements == (0 - 1)..(MaxRef + 1)

LedgerIncrement(vault_key, vault_path) ==
    /\ RefCount(ledger, vault_key) < MaxRef
    /\ LET r == increment_vault_ref_in_tx(ledger, vault_key, vault_path)
       IN  /\ ledger' = r.ledger
           /\ call' = [op |-> "increment", key |-> vault_key, arg |-> vault_path,
                       ok |-> r.ok, refs |-> 0, before |-> ledger]
    /\ UNCHANGED <<items, blobs, thumbs, month, proc, returned, image, dirs, thumb_image>>

LedgerDecrement(vault_key, decrement_by) ==
    /\ LET r == decrement_vault_ref_in_tx(ledger, vault_key, decrement_by)
       IN  /\ ledger' = r.ledger
           /\ call' = [op |-> "decrement", key |-> vault_key, arg |-> decrement_by,
                       ok |-> TRUE, refs |-> r.refs, before |-> ledger]
    /\ UNCHANGED <<items, blobs, thumbs, month, proc, returned, image, dirs, thumb_image>>

NextLedger ==
    \/ \E k \in LedgerKeys, b \in LedgerPaths : LedgerIncrement(k, b)
    \/ \E k \in LedgerKeys, by \in Decrements : LedgerDecrement(k, by)

SpecLedger == Init /\ [][NextLedger]_vars

\* ------------------------------------------------------------------ parsing
\* parse_vault_key on its own, applied to every token of letters, dots and
\* blanks up to MaxToken characters
TokenChars == {"a", "J", ".", " "}
Tokens == UNION {[1..n -> TokenChars] : n \in 0..MaxToken}

ParseVaultKey(token) ==
    /\ call' = CallRecord("parse", token, parse_vault_key(token),
                          parse_vault_key(token).ok, 0, EmptyMap)
    /\ UNCHANGED <<items, ledger, blobs, thumbs, month, proc, returned, image, dirs, thumb_image>>

NextParse == \E token \in Tokens : ParseVaultKey(token)

SpecParse == Init /\ [][NextParse]_vars

\* normalize_ext on its own: one call per behaviour, applied once and again
\* to every extension of letters, digits, dots, blanks and dashes up to
\* MaxToken characters
ExtChars == {"a", "J", "1", ".", " ", "-"}
RawExtensions == UNION {[1..n -> ExtChars] : n \in 0..MaxToken}

NormalizeExt(ext) ==
    /\ call = NoCall
    /\ call' = CallRecord("normalize_ext", ext,
                          [once |-> normalize_ext(ext),
                           twice |-> normalize_ext(normalize_ext(ext))],
                          TRUE, 0, EmptyMap)
    /\ UNCHANGED <<items, ledger, blobs, thumbs, month, proc, returned, image, dirs, thumb_image>>

NextExt == \E ext \in RawExtensions : NormalizeExt(ext)

SpecExt == Init /\ [][NextExt]_vars

\* build_vault_filename on its own: one call per behaviour, for every
\* non-empty digest string of up to MaxToken characters; the token is parsed
\* again, and counted in the ledger as insert_item would
DigestTokens == Tokens \ {<<>>}
BuildExts == RawExts \cup {<<>>, <<" ">>, <<"J", "-", "1">>}

BuildKey(sha256, ext) ==
    /\ call = NoCall
    /\ LET token == build_vault_filename(sha256, ext)
       IN  /\ call' = CallRecord("build", token,
                                 [sha256 |-> sha256, ext |-> ext,
                                  parsed |-> parse_vault_key(token)],
                                 TRUE, 0, EmptyMap)
           /\ ledger' = increment_vault_ref_in_tx(ledger, token, 1).ledger
    /\ UNCHANGED <<items, blobs, thumbs, month, proc, returned, image, dirs, thumb_image>>

NextBuild == \E sha256 \in DigestTokens, ext \in BuildExts : BuildKey(sha256, ext)

SpecBuild == Init /\ [][NextBuild]_vars

\* ----------------------------------------------------------- place requests
\* import_with_metadata_detailed called with every combination of its
\* arguments, and the commands import_to_vault and import_bytes_to_vault
\* (process_import_path_job and process_import_bytes_job make the same checks
\* before the pipeline).  Option<T>: None, or Some(v)
None == [some |-> FALSE, v |-> <<>>]
Some(v) == [some |-> TRUE, v |-> v]

\* Path::extension of a file name: None without a '.', None when the only
\* '.' is the first character, else the text after the last '.'
extension(file_name) ==
    LET at == rfind_dot(file_name)
    IN  IF at <= 1 THEN None
        ELSE Some(SubSeq(file_name, at + 1, Len(file_name)))

extension_from_filename(filename) ==
    IF extension(filename).some THEN Some(normalize_ext(extension(filename).v)) ELSE None

extension_from_path(path) ==
    IF extension(path).some THEN normalize_ext(extension(path).v) ELSE Bin

\* the chunk sha256_for_file reads at a time (64 * 1024 in the code)
ChunkLen == 2

\* Sha256: the state of a hasher is the message absorbed so far, update
\* appends to it, and the digest is printed as one digit per byte after "f"
Sha256_new == <<>>
update(hasher, data) == hasher \o data
HexDigit(byte) == IF byte = 0 THEN "0" ELSE "1"
finalize(hasher) == <<"f">> \o [i \in 1..Len(hasher) |-> HexDigit(hasher[i])]

\* variant: the read loop keeps the last chunk only
RECURSIVE hash_last_chunk(_, _)
hash_last_chunk(hasher, rest) ==
    IF rest = <<>> THEN hasher
    ELSE LET bytes_read == IF Len(rest) < ChunkLen THEN Len(rest) ELSE ChunkLen
         IN  hash_last_chunk(SubSeq(rest, 1, bytes_read),
                             SubSeq(rest, bytes_read + 1, Len(rest)))

\* sha256_for_file: the loop that reads a chunk and updates the hasher until a
\* read returns 0 bytes
RECURSIVE hash_chunks(_, _)
hash_chunks(hasher, rest) ==
    IF rest = <<>> THEN hasher
    ELSE LET bytes_read == IF Len(rest) < ChunkLen THEN Len(rest) ELSE ChunkLen
         IN  hash_chunks(update(hasher, SubSeq(rest, 1, bytes_read)),
                         SubSeq(rest, bytes_read + 1, Len(rest)))

sha256_for_file(content) == finalize(hash_chunks(Sha256_new, content))
sha256_for_bytes(bytes) == finalize(update(Sha256_new, bytes))

\* the bytes of the imported content: three bytes, two chunks
Payload == <<1, 0, 1>>
\* the files the caller's paths name, all with the same bytes; GonePath names
\* no file
SourceFiles == [path \in {<<"x", ".", "J", "P", "G">>, <<"x">>} |-> Payload]
GonePath == <<"g", ".", "j", "p", "g">>
SourcePaths == {None} \cup {Some(path) : path \in DOMAIN SourceFiles \cup {GonePath}}
SourceBytes == {None, Some(Payload)}
RequestedExts == {None, Some(<<>>), Some(<<".", "J", "P", "G">>), Some(<<"t", "x", "t">>)}
OriginalFilenames == {None, Some(<<"x">>), Some(<<"x", ".", "j", "p", "g">>)}
\* every file name a place request can write
RequestKeys ==
    {build_vault_filename(sha256_for_bytes(Payload), e) :
        e \in {Bin, <<"j", "p", "g">>, <<"t", "x", "t">>}}

\* variant: for a byte source the original filename is asked before the
\* requested extension
digest_and_ext_filename_first(source_path, source_bytes, requested_ext, original_filename) ==
    IF source_path.some /\ ~source_bytes.some
    THEN IF source_path.v \in DOMAIN SourceFiles
         THEN [ok |-> TRUE,
               sha256 |-> sha256_for_file(SourceFiles[source_path.v]),
               ext |-> extension_from_path(source_path.v)]
         ELSE [ok |-> FALSE, sha256 |-> <<>>, ext |-> <<>>]
    ELSE IF ~source_path.some /\ source_bytes.some
    THEN [ok |-> TRUE,
          sha256 |-> sha256_for_bytes(source_bytes.v),
          ext |-> IF original_filename.some
                     /\ extension_from_filename(original_filename.v).some
                  THEN extension_from_filename(original_filename.v).v
                  ELSE IF requested_ext.some THEN normalize_ext(requested_ext.v)
                  ELSE Bin]
    ELSE [ok |-> FALSE, sha256 |-> <<>>, ext |-> <<>>]

\* [ok, sha256, ext]: the match over (source_path, source_bytes)
digest_and_ext(source_path, source_bytes, requested_ext, original_filename) ==
    IF source_path.some /\ ~source_bytes.some
    THEN IF source_path.v \in DOMAIN SourceFiles
         THEN [ok |-> TRUE,
               sha256 |-> sha256_for_file(SourceFiles[source_path.v]),
               ext |-> extension_from_path(source_path.v)]
         ELSE [ok |-> FALSE, sha256 |-> <<>>, ext |-> <<>>]
    ELSE IF ~source_path.some /\ source_bytes.some
    THEN [ok |-> TRUE,
          sha256 |-> sha256_for_bytes(source_bytes.v),
          ext |-> IF requested_ext.some THEN normalize_ext(requested_ext.v)
                  ELSE IF original_filename.some
                          /\ extension_from_filename(original_filename.v).some
                  THEN extension_from_filename(original_filename.v).v
                  ELSE Bin]
    ELSE [ok |-> FALSE, sha256 |-> <<>>, ext |-> <<>>]

PlaceRequest(source_path, source_bytes, requested_ext, original_filename) ==
    [source_path |-> source_path, source_bytes |-> source_bytes,
     requested_ext |-> requested_ext, original_filename |-> original_filename]

\* import_with_metadata_detailed up to the file name: the storage root and
\* the month directory are made, then the arguments are matched; an Err
\* returns to the caller
PlaceCall(p, source_path, source_bytes, requested_ext, original_filename) ==
    /\ At(p, "idle")
    /\ dirs' = dirs \cup {month}
    /\ LET r == digest_and_ext(source_path, source_bytes, requested_ext, original_filename)
           vault_filename == build_vault_filename(r.sha256, r.ext)
           request == PlaceRequest(source_path, source_bytes, requested_ext, original_filename)
       IN  IF r.ok
           THEN /\ Set(p, [IdleProc EXCEPT
                       !.pc = "pl_find", !.name = vault_filename, !.dir = month])
                /\ call' = CallRecord("place", vault_filename, request, TRUE, 0, EmptyMap)
           ELSE /\ Set(p, IdleProc)
                /\ call' = CallRecord("place", <<>>, request, FALSE, 0, EmptyMap)
    /\ UNCHANGED <<items, ledger, blobs, thumbs, month, returned, image, thumb_image>>

\* import_to_vault: the path is an existing file, then the place call with
\* the path alone and its file name
ImportToVault(p, original_path) ==
    IF original_path \in DOMAIN SourceFiles
    THEN PlaceCall(p, Some(original_path), None, None, Some(original_path))
    ELSE /\ At(p, "idle")
         /\ call' = CallRecord("import_to_vault", <<>>,
                               PlaceRequest(Some(original_path), None, None, None),
                               FALSE, 0, EmptyMap)
         /\ UNCHANGED <<items, ledger, blobs, thumbs, month, proc, returned, image, dirs, thumb_image>>

\* import_bytes_to_vault: an empty buffer is an error, else the place call
\* with the bytes alone
ImportBytesToVault(p, bytes, original_filename, ext) ==
    IF bytes # <<>>
    THEN PlaceCall(p, None, Some(bytes), ext, original_filename)
    ELSE /\ At(p, "idle")
         /\ call' = CallRecord("import_bytes_to_vault", <<>>,
                               PlaceRequest(None, Some(bytes), ext, original_filename),
                               FALSE, 0, EmptyMap)
         /\ UNCHANGED <<items, ledger, blobs, thumbs, month, proc, returned, image, dirs, thumb_image>>

\* a vault before its first import
InitPlace ==
    /\ items = EmptyMap
    /\ ledger = EmptyMap
    /\ blobs = [f \in RequestKeys \X Buckets |-> "none"]
    /\ thumbs = {}
    /\ thumb_image = EmptyMap
    /\ month = 1
    /\ proc = [p \in Procs |-> IdleProc]
    /\ returned = {}
    /\ image = [d \in Digests |-> LargeImage]
    /\ call = NoCall
    /\ dirs = {}

\* place calls and imports, one after the other, with no failing filesystem
\* call
NextPlace ==
    \/ Tick
    \/ \E p \in {q \in Procs : Quiet(q)} :
          \/ \E sp \in SourcePaths, sb \in SourceBytes,
                re \in RequestedExts, fn \in OriginalFilenames :
                PlaceCall(p, sp, sb, re, fn)
          \/ \E path \in DOMAIN SourceFiles \cup {GonePath} : ImportToVault(p, path)
          \/ \E bytes \in {<<>>, Payload}, fn \in OriginalFilenames, re \in RequestedExts :
                ImportBytesToVault(p, bytes, fn, re)
          \/ PlaceFind(p) \/ PlaceCreate(p) \/ PlaceWrite(p)
          \/ PlaceStat(p, FALSE)

SpecPlace == InitPlace /\ [][NextPlace]_vars

\* -------------------------------------------------------- thumbnail command
\* generate_thumbnail on its own.  input_path is [dir, name]: the file name
\* in storage/{dir}, or the directory storage/{dir} itself when name is <<>>;
\* output_path is a file name under thumbs/.
ThumbInputs == {[dir |-> 1, name |-> n] : n \in PlaceKeys \cup {<<>>}}
ThumbOutputs ==
    {thumb_filename_for_vault_key(k).name : k \in PlaceKeys} \cup {<<"t">>}
ThumbMaxSizes == {NoneU32, Some(0)}
\* the thumbnail an earlier call with max_size 0 has written
TinyThumb == <<1, 1>>

exists(input_path) ==
    IF input_path.name = <<>>
    THEN input_path.dir \in dirs
    ELSE blobs[<<input_path.name, input_path.dir>>] # "none"

is_file(input_path) ==
    input_path.name # <<>> /\ blobs[<<input_path.name, input_path.dir>>] # "none"

ThumbCall(input_path, output_path, max_size, ok) ==
    CallRecord("generate_thumbnail", output_path,
               [input_path |-> input_path, max_size |-> max_size], ok, 0, EmptyMap)

\* variant: an existing output is written again
GenerateThumbnailAgain(p, input_path, output_path, max_size) ==
    /\ At(p, "idle")
    /\ IF ~exists(input_path) \/ ~is_file(input_path)
       THEN /\ call' = ThumbCall(input_path, output_path, max_size, FALSE)
            /\ UNCHANGED proc
       ELSE /\ Set(p, [IdleProc EXCEPT
                   !.pc = "gt_decode",
                   !.name = input_path.name,
                   !.path = input_path.dir,
                   !.thumb_path = output_path,
                   !.max_size = max_size])
            /\ UNCHANGED call
    /\ UNCHANGED <<items, ledger, blobs, thumbs, month, returned, image, dirs, thumb_image>>

\* generate_thumbnail: max_size.unwrap_or(IMPORT_THUMB_MAX_SIZE).max(1), then
\* generate_thumbnail_internal up to its early returns: the input is missing
\* or no regular file (Err), or the output exists (Ok, nothing is written)
GenerateThumbnail(p, input_path, output_path, max_size) ==
    /\ At(p, "idle")
    /\ IF ~exists(input_path) \/ ~is_file(input_path)
       THEN /\ call' = ThumbCall(input_path, output_path, max_size, FALSE)
            /\ UNCHANGED proc
       ELSE IF output_path \in thumbs
       THEN /\ call' = ThumbCall(input_path, output_path, max_size, TRUE)
            /\ UNCHANGED proc
       ELSE /\ Set(p, [IdleProc EXCEPT
                   !.pc = "gt_decode",
                   !.name = input_path.name,
                   !.path = input_path.dir,
                   !.thumb_path = output_path,
                   !.max_size = max_size])
            /\ UNCHANGED call
    /\ UNCHANGED <<items, ledger, blobs, thumbs, month, returned, image, dirs, thumb_image>>

\* the call a caller past the early returns is in
ThumbCallOf(p, ok) ==
    ThumbCall([dir |-> proc[p].path, name |-> proc[p].name],
              proc[p].thumb_path, proc[p].max_size, ok)

\* what the input of the caller decodes to, NotDecodable when it is gone, not
\* written to its end, or no image
Decoded(p) ==
    IF blobs[<<proc[p].name, proc[p].path>>] = "full"
    THEN image[parse_vault_key(proc[p].name).sha256]
    ELSE NotDecodable

\* generate_thumbnail_internal: ImageReader::open, with_guessed_format or
\* decode returns Err
GenerateThumbnailDecodeErr(p) ==
    /\ At(p, "gt_decode")
    /\ Decoded(p) = NotDecodable
    /\ call' = ThumbCallOf(p, FALSE)
    /\ Set(p, IdleProc)
    /\ UNCHANGED <<items, ledger, blobs, thumbs, month, returned, image, dirs, thumb_image>>

\* generate_thumbnail_internal: the image is decoded, resized and encoded,
\* and File::create makes the output or empties the one that is there
GenerateThumbnailCreate(p) ==
    /\ At(p, "gt_decode")
    /\ Decoded(p) # NotDecodable
    /\ thumbs' = thumbs \cup {proc[p].thumb_path}
    /\ thumb_image' = Put(thumb_image, proc[p].thumb_path, NotDecodable)
    /\ Set(p, [proc[p] EXCEPT
           !.pc = "gt_write",
           !.resized = thumbnail_size(Decoded(p)[1], Decoded(p)[2],
                                      Max(IF proc[p].max_size.some
                                          THEN proc[p].max_size.v
                                          ELSE IMPORT_THUMB_MAX_SIZE, 1))])
    /\ UNCHANGED <<items, ledger, blobs, month, returned, image, call, dirs>>

\* generate_thumbnail_internal: write_all and flush return Ok
GenerateThumbnailWrite(p) ==
    /\ At(p, "gt_write")
    /\ thumb_image' = Put(thumb_image, proc[p].thumb_path, proc[p].resized)
    /\ call' = ThumbCallOf(p, TRUE)
    /\ Set(p, IdleProc)
    /\ UNCHANGED <<items, ledger, blobs, thumbs, month, returned, image, dirs>>

\* generate_thumbnail_internal: write_all or flush returns Err, the output
\* stays as File::create left it
GenerateThumbnailWriteErr(p) ==
    /\ At(p, "gt_write")
    /\ call' = ThumbCallOf(p, FALSE)
    /\ Set(p, IdleProc)
    /\ UNCHANGED <<items, ledger, blobs, thumbs, month, returned, image, dirs, thumb_image>>

\* a vault with the file of one import in any state, and thumbnails that
\* earlier calls have written
InitThumb ==
    /\ items = EmptyMap
    /\ ledger = EmptyMap
    /\ \E state \in {"none", "partial", "full"} :
          blobs = [f \in PlaceKeys \X Buckets |-> IF f[2] = 1 THEN state ELSE "none"]
    /\ dirs \in SUBSET {1}
    /\ (\E f \in DOMAIN blobs : blobs[f] # "none") => 1 \in dirs
    /\ thumbs \in SUBSET ThumbOutputs
    /\ thumb_image = [t \in thumbs |-> TinyThumb]
    /\ month = 1
    /\ proc = [p \in Procs |-> IdleProc]
    /\ returned = {}
    /\ image \in [Digests -> {LargeImage, NotDecodable}]
    /\ call = NoCall

NextThumb ==
    \E p \in Procs :
        \/ \E input_path \in ThumbInputs, output_path \in ThumbOutputs,
              max_size \in ThumbMaxSizes :
              GenerateThumbnail(p, input_path, output_path, max_size)
        \/ GenerateThumbnailDecodeErr(p)
        \/ GenerateThumbnailCreate(p)
        \/ GenerateThumbnailWrite(p)
        \/ GenerateThumbnailWriteErr(p)

SpecThumb == InitThumb /\ [][NextThumb]_vars

\* ----------------------------------------------------------------- pipeline
\* import jobs and imports, one after the other, of a content that decodes to
\* any of the modelled images or to none, under image and other extensions
InitRun ==
    /\ items = EmptyMap
    /\ ledger = EmptyMap
    /\ blobs = [f \in RunKeys \X Buckets |-> "none"]
    /\ thumbs = {}
    /\ thumb_image = EmptyMap
    /\ month = 1
    /\ proc = [p \in Procs |-> IdleProc]
    /\ returned = {}
    /\ image \in [Digests -> Images]
    /\ call = NoCall
    /\ dirs = {}

NextRun ==
    \/ Tick
    \/ \E p \in {q \in Procs : Quiet(q)} :
          \/ PlaceSteps(p, RunExts, BOOLEAN)
          \/ RunNotImage(p)
          \/ StepThumb(p)
          \/ PlaceFail(p)

SpecRun == InitRun /\ [][NextRun]_vars

\* --------------------------------------------------------- thumbnail lifecycle
\* generate_thumbnail_internal inside a run, for callers that interleave:
\* the input is there, the output is not, and ImageReader::open and decode
\* return the image, which the caller holds in memory from here on
RunThumbDecode(p) ==
    /\ At(p, "pl_thumb")
    /\ thumb_filename_for_vault_key(proc[p].name).ok
    /\ thumb_filename_for_vault_key(proc[p].name).name \notin thumbs
    /\ Decoded(p) # NotDecodable
    /\ Set(p, [proc[p] EXCEPT
           !.pc = "run_write",
           !.resized = thumbnail_size(Decoded(p)[1], Decoded(p)[2], IMPORT_THUMB_MAX_SIZE)])
    /\ UNCHANGED <<items, ledger, blobs, thumbs, month, returned, image, call, dirs, thumb_image>>

\* generate_thumbnail_internal inside a run: File::create, write_all and
\* flush of the encoded thumbnail, and the Ok arm of the run
RunThumbCreate(p) ==
    /\ At(p, "run_write")
    /\ thumbs' = thumbs \cup {thumb_filename_for_vault_key(proc[p].name).name}
    /\ thumb_image' = Put(thumb_image,
           thumb_filename_for_vault_key(proc[p].name).name, proc[p].resized)
    /\ Set(p, [proc[p] EXCEPT
           !.pc = "run_done", !.thumb_status = "ready",
           !.thumb_path = thumb_filename_for_vault_key(proc[p].name).name])
    /\ UNCHANGED <<items, ledger, blobs, month, returned, image, call, dirs>>

\* a vault with the item rows of one imported key, its row at their number,
\* its blob and, or not, its thumbnail
InitLife ==
    /\ \E ids \in SUBSET ItemIds \ {{}} : \E k \in PlaceKeys :
          /\ items = [i \in ids |-> [vault_key |-> k, vault_path |-> 1]]
          /\ ledger = Put(EmptyMap, k,
                          [vault_path |-> 1, sha256 |-> parse_vault_key(k).sha256,
                           ext |-> parse_vault_key(k).ext,
                           ref_count |-> Cardinality(ids)])
    /\ month = 1
    /\ blobs = [f \in PlaceKeys \X Buckets |-> IF f[2] = 1 THEN "full" ELSE "none"]
    /\ thumbs \in SUBSET {thumb_filename_for_vault_key(k).name : k \in PlaceKeys}
    /\ thumb_image = [t \in thumbs |-> LargeThumb]
    /\ returned = PlaceKeys \X {1}
    /\ proc = [p \in Procs |-> IdleProc]
    /\ image = [d \in Digests |-> LargeImage]
    /\ call = NoCall
    /\ dirs = {1}

\* callers interleave at every statement and filesystem call: pipeline runs
\* that ask for the thumbnail, deletes with their cleanup, and the sweep
\* every delete starts with
NextLife ==
    \E p \in Procs :
        \/ PlaceSteps(p, RawExts, {TRUE}) \/ PlaceFail(p)
        \/ StepThumb(p) \/ RunThumbDecode(p) \/ RunThumbCreate(p)
        \/ BackfillRead(p)
        \/ SweepSelect(p) \/ SweepFind(p) \/ SweepRemoveOk(p) \/ SweepRemoveFail(p)
        \/ SweepThumbOk(p) \/ SweepThumbFail(p) \/ SweepPrune(p) \/ InitDbReturn(p)
        \/ \E ids \in SeqsUpTo(ItemIds, MaxBatch) : DeleteItems(p, ids)
        \/ DeleteFind(p) \/ DeleteRemoveOk(p) \/ DeleteRemoveFail(p)
        \/ DeleteThumbOk(p) \/ DeleteThumbFail(p) \/ DeletePrune(p)

SpecLife == InitLife /\ [][NextLife]_vars

\* ----------------------------------------------------------------- recovery
\* what a stopped process leaves behind for the next sweep: a delete
\* transaction has committed, the row of the key is at ref_count 0, and of
\* its files any are still there, in the buckets the clock has reached;
\* earlier place calls have returned every path of those buckets
InitRecover ==
    /\ items = EmptyMap
    /\ \E k \in PlaceKeys :
          ledger = Put(EmptyMap, k,
                       [vault_path |-> 1, sha256 |-> parse_vault_key(k).sha256,
                        ext |-> parse_vault_key(k).ext, ref_count |-> 0])
    /\ month \in Buckets
    /\ blobs \in [PlaceKeys \X Buckets -> {"none", "partial", "full"}]
    /\ \A f \in DOMAIN blobs : blobs[f] # "none" => f[2] <= month
    /\ thumbs \in SUBSET {thumb_filename_for_vault_key(k).name : k \in PlaceKeys}
    /\ thumb_image = [t \in thumbs |-> LargeThumb]
    /\ returned = PlaceKeys \X (1..month)
    /\ proc = [p \in Procs |-> IdleProc]
    /\ image = [d \in Digests |-> LargeImage]
    /\ call = NoCall
    /\ dirs = 1..month

\* the sweep of initialize_db, run again and again, stopped at any point
NextRecover ==
    \/ Tick
    \/ \E p \in Procs :
          \/ BackfillRead(p) \/ SweepSelect(p) \/ SweepFind(p)
          \/ SweepRemoveOk(p) \/ SweepRemoveFail(p)
          \/ SweepThumbOk(p) \/ SweepThumbFail(p)
          \/ SweepPrune(p) \/ InitDbReturn(p) \/ Abort(p)

\* fair I/O: the application is started again, a call that is made returns,
\* and a statement or a file removal that is tried again and again succeeds
\* in the end
FairRecover ==
    /\ \A p \in Procs : WF_vars(SweepRemoveOk(p) \/ SweepRemoveFail(p))
    /\ \A p \in Procs : WF_vars(SweepThumbOk(p) \/ SweepThumbFail(p))
    /\ SF_vars(\E p \in Procs : BackfillRead(p))
    /\ SF_vars(\E p \in Procs : SweepSelect(p))
    /\ SF_vars(\E p \in Procs : SweepFind(p))
    /\ SF_vars(\E p \in Procs : SweepRemoveOk(p))
    /\ SF_vars(\E p \in Procs : SweepThumbOk(p))
    /\ SF_vars(\E p \in Procs : SweepPrune(p))
    /\ SF_vars(\E p \in Procs : InitDbReturn(p))

SpecRecover == InitRecover /\ [][NextRecover]_vars /\ FairRecover

\* ----------------------------------------------------------- reconciliation
\* initialize_db on a database written before the ledger existed, or left by
\* a backfill that was stopped after its first row: item rows with every
\* kind of key token, vault_files empty or with one row
LegacyKeys == AllKeys \cup {PaddedKey, <<" ">>}
LegacyItems ==
    UNION {[ids -> [vault_key : LegacyKeys, vault_path : InsertPaths]] :
              ids \in SUBSET ItemIds}
LegacyLedgers ==
    {EmptyMap,
     Put(EmptyMap, OtherKey,
         [vault_path |-> 1, sha256 |-> parse_vault_key(OtherKey).sha256,
          ext |-> parse_vault_key(OtherKey).ext, ref_count |-> 1])}

InitBackfill ==
    /\ items \in LegacyItems
    /\ ledger \in LegacyLedgers
    /\ blobs = [f \in PlaceKeys \X Buckets |-> "none"]
    /\ thumbs = {}
    /\ thumb_image = EmptyMap
    /\ month = 1
    /\ proc = [p \in Procs |-> IdleProc]
    /\ returned = {}
    /\ image = [d \in Digests |-> LargeImage]
    /\ call = NoCall
    /\ dirs = {}

\* init_db, again and again, with no failing statement
NextBackfill ==
    \E p \in {q \in Procs : Quiet(q)} :
        BackfillRead(p) \/ BackfillWrite(p) \/ SweepSelect(p) \/ InitDbReturn(p)

SpecBackfill == InitBackfill /\ [][NextBackfill]_vars

\* initialize_db on a migrated database that has its files: the item rows
\* of LegacyItems, the blob copies and the thumbnail of the imported key,
\* and a ledger that is empty or holds the row a delete left at ref_count 0
MigratedLedgers ==
    {EmptyMap} \cup
    {Put(EmptyMap, k,
         [vault_path |-> 1, sha256 |-> parse_vault_key(k).sha256,
          ext |-> parse_vault_key(k).ext, ref_count |-> 0]) : k \in PlaceKeys}

InitMigrate ==
    /\ items \in LegacyItems
    /\ ledger \in MigratedLedgers
    /\ month \in Buckets
    /\ blobs \in [PlaceKeys \X Buckets -> {"none", "full"}]
    /\ \A f \in DOMAIN blobs : blobs[f] # "none" => f[2] <= month
    /\ thumbs \in SUBSET {thumb_filename_for_vault_key(k).name : k \in PlaceKeys}
    /\ thumb_image = [t \in thumbs |-> LargeThumb]
    /\ returned = {}
    /\ proc = [p \in Procs |-> IdleProc]
    /\ image = [d \in Digests |-> LargeImage]
    /\ call = NoCall
    /\ dirs = 1..month

\* init_db, again and again, each run to its end
NextMigrate ==
    \E p \in {q \in Procs : Quiet(q)} :
        \/ BackfillRead(p) \/ BackfillWrite(p)
        \/ SweepSelect(p) \/ SweepFind(p) \/ SweepRemoveOk(p) \/ SweepRemoveFail(p)
        \/ SweepThumbOk(p) \/ SweepThumbFail(p) \/ SweepPrune(p)
        \/ InitDbReturn(p)

SpecMigrate == InitMigrate /\ [][NextMigrate]_vars

\* the sweep on a ledger whose counts are right: item rows inserted with
\* keys as the callers gave them (insert_item stores the key untrimmed), a
\* row for each of their keys at the number of its item rows, rows at 0 for
\* keys that finalize_item_import moved the last item away from, and the
\* files of the imported key
SweepKeys == PlaceKeys \cup {PaddedKey, OtherKey}
InitSweep ==
    /\ \E ids \in SUBSET ItemIds : \E key \in [ids -> SweepKeys] :
          /\ items = [i \in ids |-> [vault_key |-> key[i], vault_path |-> 1]]
          /\ \E rows \in SUBSET SweepKeys :
                /\ {key[i] : i \in ids} \subseteq rows
                /\ ledger = [k \in rows |->
                                [vault_path |-> 1, sha256 |-> parse_vault_key(k).sha256,
                                 ext |-> parse_vault_key(k).ext,
                                 ref_count |-> Cardinality({i \in ids : key[i] = k})]]
    /\ month \in Buckets
    /\ blobs \in [PlaceKeys \X Buckets -> {"none", "full"}]
    /\ \A f \in DOMAIN blobs : blobs[f] # "none" => f[2] <= month
    /\ thumbs \in SUBSET {thumb_filename_for_vault_key(k).name : k \in PlaceKeys}
    /\ thumb_image = [t \in thumbs |-> LargeThumb]
    /\ returned = {}
    /\ proc = [p \in Procs |-> IdleProc]
    /\ image = [d \in Digests |-> LargeImage]
    /\ call = NoCall
    /\ dirs = 1..month

\* init_db, again and again, each run to its end; the ledger has a row for
\* every key of an item row, so the backfill has nothing to write
NextSweep ==
    \E p \in {q \in Procs : Quiet(q)} :
        \/ BackfillRead(p)
        \/ SweepSelect(p) \/ SweepFind(p) \/ SweepRemoveOk(p) \/ SweepRemoveFail(p)
        \/ SweepThumbOk(p) \/ SweepThumbFail(p) \/ SweepPrune(p)
        \/ InitDbReturn(p)

SpecSweep == InitSweep /\ [][NextSweep]_vars

\* ------------------------------------------------------------- reclamation
\* what the sweeps find when no item row is left: the files of a key as in
\* InitRecover, under a row at ref_count 0 (the references were deleted) or
\* under no row at all (an import wrote the blob and no item was inserted)
InitReclaim ==
    /\ items = EmptyMap
    /\ \E k \in PlaceKeys :
          ledger \in {EmptyMap,
                      Put(EmptyMap, k,
                          [vault_path |-> 1, sha256 |-> parse_vault_key(k).sha256,
                           ext |-> parse_vault_key(k).ext, ref_count |-> 0])}
    /\ month \in Buckets
    /\ blobs \in [PlaceKeys \X Buckets -> {"none", "partial", "full"}]
    /\ \A f \in DOMAIN blobs : blobs[f] # "none" => f[2] <= month
    /\ thumbs \in SUBSET {thumb_filename_for_vault_key(k).name : k \in PlaceKeys}
    /\ thumb_image = [t \in thumbs |-> LargeThumb]
    /\ returned = PlaceKeys \X (1..month)
    /\ proc = [p \in Procs |-> IdleProc]
    /\ image = [d \in Digests |-> LargeImage]
    /\ call = NoCall
    /\ dirs = 1..month

SpecReclaim == InitReclaim /\ [][NextRecover]_vars /\ FairRecover

\* ------------------------------------------------------------------ batches
\* insert_items_batch statement by statement, with every kind of key token:
\* one that parses, the empty one, a blank one and one without a '.'
BatchKeys == PlaceKeys \cup {EmptyKey, <<" ">>, BadKey}

NextBatch ==
    \E p \in {q \in Procs : Quiet(q)} :
        \/ BackfillRead(p) \/ BackfillWrite(p) \/ SweepSelect(p) \/ InitDbReturn(p)
        \/ \E batch \in SeqsUpTo(ItemInputs(BatchKeys), MaxBatch) : TxInsertBegin(p, batch)
        \/ TxInsertRow(p) \/ TxInsertIncrement(p) \/ TxCommit(p)
        \/ Abort(p)

SpecBatch == Init /\ [][NextBatch]_vars

\* ---------------------------------------------------------------- deletion
\* delete_items statement by statement on a vault that holds the files: the
\* rows of earlier inserts, their counts, and the blobs and thumbnails of
\* earlier imports
DeleteKeys == PlaceKeys \cup {OtherKey}
InitDelete ==
    /\ \E ids \in SUBSET ItemIds : \E key \in [ids -> DeleteKeys] :
          /\ items = [i \in ids |-> [vault_key |-> key[i], vault_path |-> 1]]
          /\ ledger = [k \in {key[i] : i \in ids} |->
                          [vault_path |-> 1, sha256 |-> parse_vault_key(k).sha256,
                           ext |-> parse_vault_key(k).ext,
                           ref_count |-> Cardinality({i \in ids : key[i] = k})]]
    /\ month \in Buckets
    /\ blobs \in [PlaceKeys \X Buckets -> {"none", "full"}]
    /\ \A f \in DOMAIN blobs : blobs[f] # "none" => f[2] <= month
    /\ thumbs \in SUBSET {thumb_filename_for_vault_key(k).name : k \in PlaceKeys}
    /\ thumb_image = [t \in thumbs |-> LargeThumb]
    /\ returned = {}
    /\ proc = [p \in Procs |-> IdleProc]
    /\ image = [d \in Digests |-> LargeImage]
    /\ call = NoCall
    /\ dirs = 1..month

\* deletes one after the other, each after the sweep of initialize_db, each
\* stopped at any point
NextDelete ==
    \E p \in {q \in Procs : Quiet(q)} :
        \/ BackfillRead(p) \/ BackfillWrite(p)
        \/ SweepSelect(p) \/ SweepFind(p) \/ SweepRemoveOk(p) \/ SweepRemoveFail(p)
        \/ SweepThumbOk(p) \/ SweepThumbFail(p) \/ SweepPrune(p)
        \/ \E ids \in SeqsUpTo(ItemIds, MaxBatch) : TxDeleteBegin(p, ids)
        \/ TxDeleteRow(p) \/ TxDeleteDecrement(p) \/ TxCommit(p)
        \/ DeleteFind(p) \/ DeleteRemoveOk(p) \/ DeleteRemoveFail(p)
        \/ DeleteThumbOk(p) \/ DeleteThumbFail(p) \/ DeletePrune(p)
        \/ Abort(p)

SpecDelete == InitDelete /\ [][NextDelete]_vars

\* ------------------------------------------------------------------ claims
AllIdle == \A p \in Procs : At(p, "idle")
\* the buckets holding a blob file of key k
Copies(k) == find_vault_files(blobs, k)
ThumbOf(k) == thumb_filename_for_vault_key(k).name
ContentKeys == {k \in AllKeys : trim(k) # <<>>}
\* the keys a place call has returned
ReturnedKeys == {f[1] : f \in returned}

\* C1: between commands, for every content key the ref_count of its ledger
\* row (0 when there is no row) equals the number of item rows whose
\* vault_key is that key, and is not negative.
LedgerConservation ==
    AllIdle =>
        \A k \in ContentKeys :
            RefCount(ledger, k) = ItemRefs(items, k) /\ RefCount(ledger, k) >= 0

\* C2: every item row whose key a place call has returned has at least one
\* blob file of that key under the storage root.
NeededBytesNeverLost ==
    \A i \in DOMAIN items :
        items[i].vault_key \in ReturnedKeys => Copies(items[i].vault_key) # {}

\* C3: a step that deletes a vault_files row finds that row at ref_count 0.
RowRemovedOnlyAtZero ==
    [][\A k \in DOMAIN ledger : k \notin DOMAIN ledger' => ledger[k].ref_count = 0]_vars

\* C4: a step that removes a blob file is taken only while the ledger count
\* of the file's key is zero or below.
BlobDeletedOnlyAtZero ==
    [][\A f \in DOMAIN blobs :
          (blobs[f] # "none" /\ blobs'[f] = "none") => RefCount(ledger, f[1]) <= 0]_vars

\* C5: when a sweep has run to its end, every key it selected at ref_count
\* zero and logged no failed removal for has no blob file in any month
\* bucket, no thumbnail and no ledger row; and the select took up every row
\* at zero.
SweepCompletes ==
    \A p \in Procs :
        At(p, "ready") =>
            /\ \A k \in proc[p].rows \ proc[p].failed :
                  /\ Copies(k) = {}
                  /\ ThumbOf(k) \notin thumbs
                  /\ k \notin DOMAIN ledger
            /\ \A k \in DOMAIN ledger : ledger[k].ref_count <= 0 => k \in proc[p].failed

\* a sweep has ended after collecting a key that had a returned blob
SweepCompletesWitness ==
    \E p \in Procs :
        /\ At(p, "ready")
        /\ \E k \in proc[p].rows \ proc[p].failed : k \in ReturnedKeys

\* C6: a step that deletes item rows lowers the count of every key by the
\* number of rows of that key it deleted; and while a row still references
\* the key the step removes neither a blob file, nor the thumbnail, nor the
\* ledger row of the key, which stays above zero.
SharedBlobLifecycle ==
    [][\A k \in ContentKeys :
          LET lowered == ItemRefs(items, k) - ItemRefs(items', k)
          IN  /\ (/\ DOMAIN items' \subseteq DOMAIN items
                  /\ DOMAIN items' # DOMAIN items
                  /\ RefCount(ledger, k) = ItemRefs(items, k))
                 => RefCount(ledger', k) = RefCount(ledger, k) - lowered
              /\ (ItemRefs(items, k) > 0 /\ ItemRefs(items', k) > 0
                  /\ RefCount(ledger, k) = ItemRefs(items, k))
                 => /\ \A b \in Copies(k) : blobs'[<<k, b>>] # "none"
                    /\ ThumbOf(k) \in thumbs => ThumbOf(k) \in thumbs'
                    /\ RefCount(ledger', k) > 0]_vars

\* C7: when a file of the key exists in some month bucket, the dedupe check
\* of a place call ends with deduped = true and the path of that file; from
\* there on the call writes nothing, and that file is the one file of the key.
DedupeIdempotent ==
    /\ [][\A p \in Procs :
             (/\ At(p, "pl_find")
              /\ proc'[p].pc \notin {"pl_find", "idle"}
              /\ Copies(proc[p].name) # {})
             => /\ proc'[p].pc = "pl_stat"
                /\ proc'[p].deduped
                /\ proc'[p].path \in Copies(proc[p].name)
                /\ blobs' = blobs]_vars
    /\ [][\A p \in Procs : proc[p].deduped => blobs' = blobs]_vars
    /\ [](\A p \in Procs : proc[p].deduped => Copies(proc[p].name) = {proc[p].path})

\* a place call has deduplicated onto a file of an earlier month
DedupeWitness ==
    \E p \in Procs :
        /\ At(p, "pl_stat")
        /\ proc[p].deduped
        /\ proc[p].path < month
        /\ blobs[<<proc[p].name, proc[p].path>>] = "full"

\* C8: however place calls and inserts interleave, a step that inserts rows
\* raises the count of every key by the number of rows of that key it
\* inserted, a path place returns exists when it is returned, and the key
\* has no more copies than there are callers and months reached.
Min(a, b) == IF a < b THEN a ELSE b
RaceHarmless ==
    /\ [](\A k \in PlaceKeys : Cardinality(Copies(k)) <= Min(month, Cardinality(Procs)))
    /\ [][(DOMAIN items \subseteq DOMAIN items' /\ DOMAIN items # DOMAIN items')
          => \A k \in ContentKeys :
                RefCount(ledger', k) =
                    RefCount(ledger, k) + ItemRefs(items', k) - ItemRefs(items, k)]_vars
    /\ [][\A f \in returned' \ returned : blobs'[f] # "none"]_vars

\* both callers placed the key into different months and both inserted
RaceWitness ==
    \E k \in PlaceKeys :
        /\ Cardinality(returned) = 2
        /\ \A f \in returned : f[1] = k /\ blobs[f] = "full"
        /\ RefCount(ledger, k) = 2
        /\ ItemRefs(items, k) = 2

\* C9: a step that deletes a ledger row finds no blob file and no thumbnail
\* of its key left; a key with a failed removal is never queued for the
\* prune, no step deletes its row, and its row is at ref_count 0: the row
\* the sweep selected, and the row of a delete candidate where it has one;
\* the select of a sweep takes up every row at ref_count 0.
SweepPcs == {"find", "rm", "thumb", "prune", "ready"}
PruneOnlyAfterCleanup ==
    /\ [][\A k \in DOMAIN ledger \ DOMAIN ledger' :
             /\ Copies(k) = {} /\ ThumbOf(k) \notin thumbs
             /\ \A p \in Procs : k \notin proc[p].failed]_vars
    /\ [](\A p \in Procs : \A k \in proc[p].failed :
             /\ k \notin proc[p].prune
             /\ proc[p].pc \in SweepPcs => k \in DOMAIN ledger
             /\ k \in DOMAIN ledger => ledger[k].ref_count = 0)
    /\ [][\A p \in Procs :
             (At(p, "select") /\ proc'[p].pc \notin {"select", "idle"})
             => LET zero == {k \in DOMAIN ledger : ledger[k].ref_count = 0}
                IN  IF zero = {} THEN proc'[p].pc = "ready"
                    ELSE proc'[p].pc = "find" /\ proc'[p].rows = zero]_vars

\* a sweep has ended with a failed removal, the blob still there
PruneWitness ==
    \E p \in Procs :
        /\ At(p, "ready")
        /\ \E k \in proc[p].failed : Copies(k) # {} /\ k \in DOMAIN ledger

\* C10: from whatever a stopped process left, the sweeps end up with no row
\* at ref_count zero, and no blob file and no thumbnail of a key without a
\* row; from there on a sweep changes nothing.
Collected ==
    /\ \A k \in DOMAIN ledger : ledger[k].ref_count > 0
    /\ \A k \in PlaceKeys :
          k \notin DOMAIN ledger => Copies(k) = {} /\ ThumbOf(k) \notin thumbs
GCConverges ==
    /\ <>[]Collected
    /\ [][Collected => UNCHANGED <<items, ledger, blobs, thumbs>>]_vars

\* a further sweep has run to its end on the collected state
ConvergedWitness ==
    /\ Collected
    /\ \E p \in Procs : At(p, "ready") /\ proc[p].rows = {}

\* ------------------------------------------------- claims on the pipeline
RunPcs == {"run_dims", "pl_thumb", "run_done"}
ThumbStatuses == {"pending", "skipped", "ready", "error"}
LongerSide(size) == Max(size[1], size[2])
ShorterSide(size) == Min(size[1], size[2])

\* C16: once the placement has succeeded the job goes on to its result
\* whatever the dimension read and the thumbnail do: no step ends it before
\* the result, the result carries a content key that parses and the path of
\* an existing file, and a failed dimension read or thumbnail leaves
\* thumb_status = error and the blob as it is.
PipelineResilient ==
    /\ [][\A p \in Procs :
             proc[p].pc \in RunPcs
             => /\ proc'[p].pc \in RunPcs \cup {"idle"}
                /\ proc'[p].pc = "idle" => proc[p].pc = "run_done"
                /\ proc'[p].name = proc[p].name \/ proc'[p].pc = "idle"
                /\ blobs' = blobs]_vars
    /\ [](\A p \in Procs :
             At(p, "run_done")
             => /\ parse_vault_key(proc[p].name).ok
                /\ blobs[<<proc[p].name, proc[p].path>>] # "none"
                /\ <<proc[p].name, proc[p].path>> \in returned
                /\ proc[p].thumb_status \in ThumbStatuses)
    /\ [][\A p \in Procs :
             (/\ proc[p].pc \in {"run_dims", "pl_thumb"}
              /\ proc'[p].thumb_status = "error")
             => /\ proc'[p].pc = "run_done"
                /\ proc'[p].path = proc[p].path
                /\ UNCHANGED <<items, ledger, returned>>]_vars

\* a job has its result after a failed thumbnail
PipelineResilientWitness ==
    \E p \in Procs :
        /\ At(p, "run_done")
        /\ proc[p].thumb_status = "error"
        /\ proc[p].generate_thumb
        /\ proc[p].width # 0
        /\ blobs[<<proc[p].name, proc[p].path>>] = "full"

\* C17: an image whose dimensions were read with the longer side at most 480
\* ends with thumb_status = skipped and no thumbnail path, and while its job
\* runs no thumbnail file is created, whatever generate_thumb is.
SmallImageSkipped ==
    /\ [](\A p \in Procs :
             (/\ proc[p].width # 0
              /\ LongerSide(<<proc[p].width, proc[p].height>>) <= 480)
             => /\ At(p, "run_done")
                /\ proc[p].thumb_status = "skipped"
                /\ proc[p].thumb_path = <<>>
                /\ proc[p].resized = <<0, 0>>)
    /\ [][\A p \in Procs :
             (/\ proc[p].pc \in RunPcs
              /\ image[parse_vault_key(proc[p].name).sha256] # NotDecodable
              /\ LongerSide(image[parse_vault_key(proc[p].name).sha256]) <= 480)
             => thumbs' = thumbs]_vars

\* an image of exactly 480 was skipped though a thumbnail was asked for
SmallImageWitness ==
    \E p \in Procs :
        /\ At(p, "run_done")
        /\ proc[p].generate_thumb
        /\ LongerSide(<<proc[p].width, proc[p].height>>) = 480
        /\ proc[p].thumb_status = "skipped"

\* C18: a thumbnail the job generated for an image with the longer side above
\* 480 has its longer side equal to 480 and its shorter side equal to the
\* source's shorter side times 480 / longer, rounded, at least 1.
ThumbnailLongerSide ==
    \A p \in Procs :
        (/\ At(p, "run_done")
         /\ proc[p].generate_thumb
         /\ proc[p].thumb_status = "ready"
         /\ proc[p].resized # <<0, 0>>)
        => LET source == <<proc[p].width, proc[p].height>>
           IN  /\ LongerSide(source) > 480
               /\ proc[p].thumb_path # <<>>
               /\ LongerSide(proc[p].resized) = 480
               /\ ShorterSide(proc[p].resized) =
                      Max(RoundDiv(ShorterSide(source) * 480, LongerSide(source)), 1)

\* C19: a result for an extension that is no image extension has status
\* ready, no dimensions and no thumbnail path; a result for an image with the
\* longer side above 480 whose caller declined the thumbnail has status
\* pending and no thumbnail path; a thumbnail file is created only by a job
\* that was asked for one; every result's status is one of the four.
ThumbStatusEndStates ==
    /\ [](\A p \in Procs :
             At(p, "run_done")
             => /\ proc[p].thumb_status \in ThumbStatuses
                /\ parse_vault_key(proc[p].name).ext \notin ImageExts
                   => /\ proc[p].thumb_status = "ready"
                      /\ proc[p].width = 0 /\ proc[p].height = 0
                      /\ proc[p].thumb_path = <<>>
                /\ (/\ parse_vault_key(proc[p].name).ext \in ImageExts
                    /\ proc[p].width # 0
                    /\ LongerSide(<<proc[p].width, proc[p].height>>) > 480
                    /\ ~proc[p].generate_thumb)
                   => /\ proc[p].thumb_status = "pending"
                      /\ proc[p].thumb_path = <<>>
                      /\ proc[p].resized = <<0, 0>>)
    /\ [][thumbs' # thumbs
          => \E p \in Procs :
                /\ At(p, "pl_thumb")
                /\ proc[p].generate_thumb
                /\ parse_vault_key(proc[p].name).ext \in ImageExts]_vars

\* a large image was left pending, after a thumbnail of the key was written
\* by a job that asked for one
ThumbStatusWitness ==
    \E p \in Procs :
        /\ At(p, "run_done")
        /\ proc[p].thumb_status = "pending"
        /\ ~proc[p].generate_thumb
        /\ LongerSide(<<proc[p].width, proc[p].height>>) > 480
        /\ thumbs # {}

\* C20: when a placement returns an error at the write of the destination,
\* the destination file of the call does not exist afterwards, and the
\* ledger is as it was.
HardFailureStoresNothing ==
    [][\A p \in Procs :
          (At(p, "pl_write") /\ proc'[p].pc = "idle")
          => /\ blobs'[<<proc[p].name, proc[p].dir>>] = "none"
             /\ ledger' = ledger]_vars

\* C38: in every result of the pipeline the thumbnail path is there exactly
\* when the extension is an image extension and thumb_status is ready; width
\* and height are there together, only for an image extension, they are what
\* the file decodes to, and an image without them has thumb_status = error;
\* and deduped is what the dedupe check of the placement found.
PipelineResultConsistent ==
    /\ [](\A p \in Procs :
             At(p, "run_done")
             => LET is_image == is_image_extension(parse_vault_key(proc[p].name).ext)
                IN  /\ proc[p].thumb_path # <<>>
                       <=> (is_image /\ proc[p].thumb_status = "ready")
                    /\ proc[p].width # 0 <=> proc[p].height # 0
                    /\ proc[p].width # 0
                       => /\ is_image
                          /\ <<proc[p].width, proc[p].height>>
                                 = image[parse_vault_key(proc[p].name).sha256]
                    /\ (is_image /\ proc[p].width = 0) => proc[p].thumb_status = "error")
    /\ [][\A p \in Procs :
             (proc[p].pc \in {"pl_create", "pl_write", "pl_stat"} \cup RunPcs
              /\ proc'[p].pc # "idle")
             => proc'[p].deduped = proc[p].deduped]_vars
    /\ [][\A p \in Procs :
             (At(p, "pl_find") /\ proc'[p].pc \in {"pl_create", "pl_stat"})
             => (proc'[p].deduped <=> find_vault_files(blobs, proc[p].name) # {})]_vars

\* a deduped run has returned the thumbnail of a large image
PipelineResultWitness ==
    \E p \in Procs :
        /\ At(p, "run_done")
        /\ proc[p].deduped
        /\ proc[p].thumb_status = "ready"
        /\ proc[p].thumb_path # <<>>
        /\ proc[p].width = 1000 /\ proc[p].height = 601

\* --------------------------------------------- claims on the ledger calls
\* C13: an increment with a key token that does not parse returns an error
\* and leaves the ledger as it was; with a token that parses it returns Ok,
\* the row of the key is at 1 when there was none and one higher otherwise,
\* with the given path, and no other row changes.
IncrementContract ==
    call.op = "increment"
    => IF parse_vault_key(call.key).ok
       THEN /\ call.ok
            /\ ledger[call.key].ref_count = RefCount(call.before, call.key) + 1
            /\ ledger[call.key].vault_path = call.arg
            /\ \A k \in DOMAIN ledger \ {call.key} :
                  k \in DOMAIN call.before /\ ledger[k] = call.before[k]
       ELSE ~call.ok /\ ledger = call.before

\* C14: a decrement of an existing row leaves its ref_count at
\* max(ref_count - max(by, 0), 0) and returns that count; no other row
\* changes and no stored count is negative.
DecrementFloors ==
    /\ \A k \in DOMAIN ledger : ledger[k].ref_count >= 0
    /\ (call.op = "decrement" /\ call.key \in DOMAIN call.before)
       => LET by == Max(call.arg, 0)
              expected == Max(call.before[call.key].ref_count - by, 0)
          IN  /\ ledger[call.key].ref_count = expected
              /\ call.refs = expected
              /\ DOMAIN ledger = DOMAIN call.before
              /\ \A k \in DOMAIN ledger \ {call.key} : ledger[k] = call.before[k]

\* a row above zero was decremented by more than its count
DecrementFloorsWitness ==
    /\ call.op = "decrement"
    /\ call.key \in DOMAIN call.before
    /\ call.before[call.key].ref_count > 0
    /\ call.arg > call.before[call.key].ref_count
    /\ call.refs = 0

\* --------------------------------------------- claims on the transactions
TxPcs ==
    {"tx_ins_row", "tx_ins_inc", "tx_del_row", "tx_del_dec",
     "tx_fin_dec", "tx_fin_inc", "tx_fin_update", "tx_commit"}
FinPcs == {"tx_fin_dec", "tx_fin_inc", "tx_fin_update"}
\* the step is the commit of p's transaction
Commits(p) ==
    /\ At(p, "tx_commit")
    /\ items' = proc[p].tx.items
    /\ ledger' = proc[p].tx.ledger

\* C11: the durable item rows change only in the commit of a transaction,
\* together with the ledger rows the transaction changed; a step that ends
\* a transaction otherwise (an error return, a stopped process) leaves both
\* as they were; and what an insert transaction commits has, for every key,
\* as many references added as rows of that key.
AtomicTransactions ==
    /\ [][items' # items => \E p \in Procs : Commits(p)]_vars
    /\ [][ledger' # ledger
          => \/ \E p \in Procs : Commits(p)
             \/ /\ items' = items
                /\ \E p \in Procs : proc[p].pc \in {"backfill_write", "prune", "del_prune"}]_vars
    /\ [](\A p \in Procs :
             (/\ At(p, "tx_commit")
              /\ DOMAIN items \subseteq DOMAIN proc[p].tx.items
              /\ proc[p].fin = <<>>)
             => \A k \in ContentKeys :
                   RefCount(proc[p].tx.ledger, k) - RefCount(ledger, k)
                       = ItemRefs(proc[p].tx.items, k) - ItemRefs(items, k))

\* a batch was rolled back at its second item: the transaction had counted
\* the first, nothing of it is durable
AtomicWitness ==
    /\ AllIdle
    /\ call.op = "increment"
    /\ ~call.ok
    /\ call.before # EmptyMap
    /\ items = EmptyMap
    /\ ledger = EmptyMap

\* C12: the decrement a delete passes for a key is the number of item rows
\* of that key the transaction deleted, and the count of the key goes down
\* by that number where it was that high.
DeleteDecrementsExactly ==
    [][\A p \in Procs :
          (/\ At(p, "tx_del_dec")
           /\ proc'[p].pc \in {"tx_del_dec", "tx_commit"}
           /\ proc'[p].decs # proc[p].decs)
          => LET deleted == ItemRefs(items, call'.key)
                                - ItemRefs(proc[p].tx.items, call'.key)
             IN  /\ call'.arg = deleted
                 /\ RefCount(proc[p].tx.ledger, call'.key) >= deleted
                    => RefCount(proc'[p].tx.ledger, call'.key)
                           = RefCount(proc[p].tx.ledger, call'.key) - deleted]_vars

\* C15: the commit of a finalize whose next key differs from the item's key
\* leaves the next key one higher, the old key, where it is not empty, one
\* lower (at zero where it was at zero), every other row as it was and the
\* item on the next key; with the same key the ledger is as it was; before
\* its commit a finalize changes nothing durable, and one whose item does not
\* exist or whose key or path is empty opens no transaction.
FinalizeReplaces ==
    /\ [][\A p \in Procs :
             (Commits(p) /\ proc[p].fin # <<>>)
             => LET item_id == proc[p].fin[1]
                    next == proc[p].fin[2]
                    old == items[item_id].vault_key
                IN  /\ items'[item_id] = [vault_key |-> next, vault_path |-> proc[p].fin[3]]
                    /\ \A i \in DOMAIN items \ {item_id} : items'[i] = items[i]
                    /\ IF old = next
                       THEN ledger' = ledger
                       ELSE /\ RefCount(ledger', next) = RefCount(ledger, next) + 1
                            /\ trim(old) # <<>>
                               => RefCount(ledger', old) = Max(RefCount(ledger, old) - 1, 0)
                            /\ \A k \in DOMAIN ledger' \ {old, next} :
                                  k \in DOMAIN ledger /\ ledger'[k] = ledger[k]]_vars
    /\ [][\A p \in Procs :
             proc[p].pc \in FinPcs \cup {"ready"}
             => items' = items /\ ledger' = ledger]_vars
    /\ [](\A p \in Procs :
             proc[p].pc \in FinPcs
             => /\ proc[p].fin[1] \in DOMAIN items
                /\ proc[p].fin[2] # <<>>
                /\ proc[p].fin[3] # 0)

\* a finalize is about to commit the move of an item from a key it shared
\* to a key another item holds
FinalizeWitness ==
    \E p \in Procs :
        /\ At(p, "tx_commit")
        /\ proc[p].fin # <<>>
        /\ LET old == items[proc[p].fin[1]].vault_key
               next == proc[p].fin[2]
           IN  /\ trim(old) # <<>>
               /\ old # next
               /\ RefCount(ledger, old) = 2
               /\ RefCount(proc[p].tx.ledger, old) = 1
               /\ RefCount(proc[p].tx.ledger, next) = 1

\* --------------------------------------------- claims on the place requests
\* the request breaks the input contract: neither or both sources to a place
\* call, an empty buffer to a bytes import
ContractViolation(c) ==
    \/ c.op = "place" /\ c.arg.source_path.some = c.arg.source_bytes.some
    \/ c.op = "import_bytes_to_vault" /\ c.arg.source_bytes.v = <<>>

\* C21: a request that breaks the input contract returns an error, and the
\* step that takes it creates no month directory and no file under the
\* application root.
InputContractBeforeIO ==
    /\ [](ContractViolation(call) => ~call.ok)
    /\ [][(call' # call /\ ContractViolation(call'))
          => dirs' = dirs /\ blobs' = blobs /\ thumbs' = thumbs]_vars

\* the extension a request declares, as the caller wrote it: the path's for
\* a path source; for a byte source the override when one is given, else the
\* original filename's when it has one; <<>> when nothing is declared
DeclaredExt(request) ==
    IF request.source_path.some
    THEN extension(request.source_path.v).v
    ELSE IF request.requested_ext.some THEN request.requested_ext.v
    ELSE IF request.original_filename.some
    THEN extension(request.original_filename.v).v
    ELSE <<>>
Placed(c) == c.op = "place" /\ c.ok

\* C24: of two place calls for the same bytes, by path or by buffer, the
\* content keys are equal exactly when the declared extensions normalize to
\* the same string; every key carries the digest of the bytes; a key has one
\* blob file, and the paths returned for different keys are different files,
\* each complete.
ContentKeyIdentity ==
    /\ [][(Placed(call) /\ Placed(call'))
          => (call'.key = call.key
              <=> normalize_ext(DeclaredExt(call'.arg)) = normalize_ext(DeclaredExt(call.arg)))]_vars
    /\ [](Placed(call) => parse_vault_key(call.key).sha256 = sha256_for_bytes(Payload))
    /\ [](\A k \in RequestKeys : Cardinality(Copies(k)) <= 1)
    /\ [](\A f \in returned : blobs[f] = "full")

\* the same bytes are stored under two keys: placed by path as jpg, and by
\* buffer under another extension
ContentKeyWitness ==
    /\ Placed(call)
    /\ call.arg.source_bytes.some
    /\ \E f \in returned, g \in returned :
          /\ f[1] # g[1]
          /\ parse_vault_key(f[1]).sha256 = parse_vault_key(g[1]).sha256
          /\ g[1] = call.key
          /\ f[1] = build_vault_filename(sha256_for_file(Payload), <<"j", "p", "g">>)

\* C25: the extension of the key of a place call is the normalized form of
\* the path's extension for a path source, whatever extension is requested;
\* for a byte source it is the normalized override when one is given, else
\* the normalized extension of the original filename, else "bin"; it is
\* always lowercase alphanumeric and not empty.
ExtensionChoice ==
    Placed(call)
    => LET ext == parse_vault_key(call.key).ext
           request == call.arg
       IN  /\ ext = normalize_ext(DeclaredExt(request))
           /\ request.source_path.some
              => ext = normalize_ext(extension(request.source_path.v).v)
           /\ (request.source_bytes.some /\ request.requested_ext.some)
              => ext = normalize_ext(request.requested_ext.v)
           /\ (/\ request.source_bytes.some
               /\ ~request.requested_ext.some
               /\ ~request.original_filename.some)
              => ext = Bin
           /\ ext # <<>>
           /\ \A i \in 1..Len(ext) : ext[i] \in LowerAlnum
           /\ normalize_ext(ext) = ext

\* a buffer was placed under the override, not under the extension of its
\* original filename
ExtensionChoiceWitness ==
    /\ Placed(call)
    /\ call.arg.source_bytes.some
    /\ call.arg.requested_ext = Some(<<"t", "x", "t">>)
    /\ call.arg.original_filename = Some(<<"x", ".", "j", "p", "g">>)
    /\ parse_vault_key(call.key).ext = <<"t", "x", "t">>

\* --------------------------------------------------- claims on the parsing
\* the places of text where its last '.' stands with text on both sides
SplitsAt(text) ==
    {i \in 2..(Len(text) - 1) :
        text[i] = Dot /\ \A j \in (i + 1)..Len(text) : text[j] # Dot}

\* the last parse of token split text there
ParsedAs(text) ==
    /\ call.ok <=> SplitsAt(text) # {}
    /\ \A i \in SplitsAt(text) :
          /\ call.arg.sha256 = SubSeq(text, 1, i - 1)
          /\ call.arg.ext = normalize_ext(SubSeq(text, i + 1, Len(text)))

\* C26 as stated: parse fails exactly when the token has no '.', or its
\* last '.' is its first or its last character; when it succeeds the digest
\* is the text of the token before the last '.' and the extension the
\* normalized text after it.
ParseSplitsAtLastDot == call.op = "parse" => ParsedAs(call.key)

\* C26 as amended: parse first trims the white space at both ends of the
\* token; it fails exactly when the trimmed token has no '.', or its last
\* '.' is the first or the last character of the trimmed token; when it
\* succeeds the digest is the trimmed text before that '.' and the extension
\* the normalized text after it.
ParseSplitsTrimmedAtLastDot == call.op = "parse" => ParsedAs(trim(call.key))

\* a token with a blank in front was parsed: the digest has lost the blank
ParseTrimmedWitness ==
    /\ call.op = "parse"
    /\ call.key = <<" ", "a", ".", "J">>
    /\ call.ok
    /\ call.arg.sha256 = <<"a">>
    /\ call.arg.ext = <<"j">>

\* ----------------------------------------- claims on the thumbnail command
\* C27: a generate call whose output exists and whose input is an existing
\* regular file returns Ok and leaves every thumbnail file as it is (so a
\* second call after a successful one changes nothing); a generate call whose
\* input is missing or no regular file returns Err and creates no output.
GenerateIdempotent ==
    /\ [][\A p \in Procs, input_path \in ThumbInputs,
             output_path \in ThumbOutputs, max_size \in ThumbMaxSizes :
             GenerateThumbnail(p, input_path, output_path, max_size)
             => /\ (output_path \in thumbs /\ is_file(input_path))
                   => /\ call' = ThumbCall(input_path, output_path, max_size, TRUE)
                      /\ proc'[p].pc = "idle"
                      /\ thumbs' = thumbs /\ thumb_image' = thumb_image
                /\ (~exists(input_path) \/ ~is_file(input_path))
                   => /\ call' = ThumbCall(input_path, output_path, max_size, FALSE)
                      /\ proc'[p].pc = "idle"
                      /\ thumbs' = thumbs /\ thumb_image' = thumb_image]_vars
    /\ []((call.op = "generate_thumbnail" /\ call.ok) => call.key \in thumbs)

\* a call with the default max_size has returned Ok for an output that an
\* earlier call with max_size 0 had written, and the output is still the
\* earlier one
GenerateSkippedWitness ==
    /\ call.op = "generate_thumbnail" /\ call.ok
    /\ call.key = <<"t">>
    /\ call.arg.max_size = NoneU32
    /\ is_file(call.arg.input_path)
    /\ \A p \in Procs : At(p, "idle")
    /\ <<"t">> \in thumbs /\ thumb_image[<<"t">>] = TinyThumb

\* --------------------------------------------------- claims on the deletion
DeleteTxPcs == {"tx_del_row", "tx_del_dec", "tx_commit"}

\* C28: while the transaction of delete_items is open no blob and no
\* thumbnail is removed, and a step that is not its commit (the next
\* statement, an error return, a stopped process) changes no item row and
\* no count; a file is removed only when the committed rows show the key at
\* count 0 with no item left; and the ledger rows are deleted in a step of
\* their own, after the files of each deleted row are gone.
DeletionFollowsCommit ==
    /\ [][\A p \in Procs :
             proc[p].pc \in DeleteTxPcs
             => /\ blobs' = blobs /\ thumbs' = thumbs /\ thumb_image' = thumb_image
                /\ Commits(p) \/ (items' = items /\ ledger' = ledger)]_vars
    /\ [][\A p \in Procs :
             (proc[p].pc \in {"del_rm", "del_thumb"}
              /\ (blobs' # blobs \/ thumbs' # thumbs))
             => /\ RefCount(ledger, proc[p].cur) = 0
                /\ ItemRefs(items, proc[p].cur) = 0
                /\ items' = items /\ ledger' = ledger]_vars
    /\ [][\A p \in Procs :
             (At(p, "del_prune") /\ ledger' # ledger)
             => /\ items' = items /\ blobs' = blobs /\ thumbs' = thumbs
                /\ \A k \in DOMAIN ledger \ DOMAIN ledger' :
                      /\ find_vault_files(blobs, k) = {}
                      /\ thumb_filename_for_vault_key(k).name \notin thumbs]_vars

\* a delete has committed, removed both copies of the blob and its thumbnail,
\* and is about to delete the ledger row
DeletionWitness ==
    \E p \in Procs :
        /\ At(p, "del_prune")
        /\ proc[p].prune \cap PlaceKeys # {}
        /\ items = EmptyMap
        /\ \A f \in DOMAIN blobs : blobs[f] = "none"
        /\ thumbs = {}
        /\ \E k \in PlaceKeys : k \in DOMAIN ledger /\ ledger[k].ref_count = 0

\* the blob copies and the thumbnail of key k that a step removes
RemovedFilesOf(k) ==
    {f \in DOMAIN blobs : f[1] = k /\ blobs[f] # "none" /\ blobs'[f] = "none"}
        \cup ({thumb_filename_for_vault_key(k).name} \cap (thumbs \ thumbs'))

DeleteCleanupPcs == {"del_find", "del_rm", "del_thumb", "del_prune"}

BadKeyRollsBackBatch ==
    /\ [](\A p \in Procs :
             At(p, "tx_commit")
             => \A i \in DOMAIN proc[p].tx.items \ DOMAIN items :
                   \/ proc[p].tx.items[i].vault_key = <<>>
                   \/ parse_vault_key(proc[p].tx.items[i].vault_key).ok)
    /\ [][(items' # items \/ ledger' # ledger)
          => \/ \E p \in Procs : Commits(p)
             \/ items' = items /\ \E p \in Procs : At(p, "backfill_write")]_vars

\* ------------------------------------------- claims on concurrent placement
\* C30: the file at every path a place call returns is written to its end
\* at the return (so that the size read from it is the length of the
\* content), whatever other place calls are doing or have left behind.
ReturnedFileComplete ==
    [][\A f \in returned' \ returned : blobs[f] = "full"]_vars

\* ------------------------------------------------ claims on the extensions
\* C34: normalize_ext returns "bin" or a non-empty string of lowercase ASCII
\* letters and digits; it returns "bin" for an input with no letter and no
\* digit (empty, blank, punctuation only); and applied to its own result it
\* returns that result.
NormalizedExtension ==
    call.op = "normalize_ext"
    => LET ext == call.key
           out == call.arg.once
       IN  /\ out # <<>>
           /\ \A i \in 1..Len(out) : out[i] \in LowerAlnum
           /\ (\A i \in 1..Len(ext) : ext[i] \in {".", " ", "-"}) => out = Bin
           /\ call.arg.twice = out

\* an extension with a dot, a capital, a dash and a blank was normalized
NormalizedWitness ==
    /\ call.op = "normalize_ext"
    /\ call.key = <<".", "J", "-", " ">>
    /\ call.arg.once = <<"j">>

\* ------------------------------------------------- claims on the key tokens
\* the token of the last build parses into sha256 and the normalized
\* extension, these build the token again, and the ledger row counted for
\* the token holds a digest and an extension that build its key
RoundTrip ==
    /\ call.arg.parsed.ok
    /\ call.arg.parsed.sha256 = call.arg.sha256
    /\ call.arg.parsed.ext = normalize_ext(call.arg.ext)
    /\ build_vault_filename(call.arg.parsed.sha256, call.arg.parsed.ext) = call.key
    /\ call.key \in DOMAIN ledger
    /\ \A k \in DOMAIN ledger : build_vault_filename(ledger[k].sha256, ledger[k].ext) = k

\* C37 as stated: for every non-empty digest d and every extension e,
\* parse(build(d, e)) = (d, normalize_ext(e)), build of that pair is the same
\* token, and the file name built from the stored row is the row's key.
KeyRoundTrip == call.op = "build" => RoundTrip

\* C37 as amended: the same for every non-empty digest d that does not begin
\* with white space.
KeyRoundTripUnpadded ==
    (call.op = "build" /\ trim_start(call.arg.sha256) = call.arg.sha256) => RoundTrip

\* a digest with a dot and a blank inside, and an extension to normalize,
\* went round
KeyRoundTripWitness ==
    /\ call.op = "build"
    /\ call.arg.sha256 = <<"a", ".", " ">>
    /\ call.arg.ext = <<".", "J", "P", "G">>
    /\ call.key = <<"a", ".", " ", ".", "j", "p", "g">>
    /\ call.key \in DOMAIN ledger

\* ------------------------------------------------- claims on the migration
\* the keys of item rows that parse
MigratedKeys ==
    {k \in {items[i].vault_key : i \in DOMAIN items} : parse_vault_key(k).ok}

\* C35: initialize_db runs the backfill before the sweep; started on an empty
\* ledger with item rows that have a key, it writes the rows without touching
\* a file and reaches the sweep with every key K that parses at the number
\* of item rows of K; and the sweep that finds every row at the number of
\* its item rows, at least 1, ends at once and changes no row, no blob and
\* no thumbnail.
MigrationProtected ==
    /\ [][\A p \in Procs :
             (At(p, "idle") /\ proc'[p].pc # "idle")
             => /\ proc'[p].pc \in {"backfill_write", "select"}
                /\ ledger' = ledger /\ blobs' = blobs /\ thumbs' = thumbs
                /\ (DOMAIN ledger = {} /\ \E i \in DOMAIN items : items[i].vault_key # <<>>)
                   => proc'[p].pc = "backfill_write"]_vars
    /\ [][\A p \in Procs :
             At(p, "backfill_write")
             => /\ proc'[p].pc \in {"backfill_write", "select"}
                /\ blobs' = blobs /\ thumbs' = thumbs /\ items' = items
                /\ proc'[p].pc = "select"
                   => \A k \in MigratedKeys :
                         RefCount(ledger', k) = ItemRefs(items, k)]_vars
    /\ [][\A p \in Procs :
             (/\ At(p, "select")
              /\ \A k \in DOMAIN ledger :
                    ledger[k].ref_count >= 1 /\ ledger[k].ref_count = ItemRefs(items, k))
             => /\ proc'[p].pc = "ready"
                /\ ledger' = ledger /\ blobs' = blobs /\ thumbs' = thumbs]_vars

\* initialize_db has ended on a ledger it filled: the padded key of two item
\* rows is at 2, and the blob and the thumbnail it names are there
MigrationWitness ==
    \E p \in Procs :
        /\ At(p, "ready")
        /\ \A i \in ItemIds : i \in DOMAIN items /\ items[i].vault_key = PaddedKey
        /\ RefCount(ledger, PaddedKey) = 2
        /\ \E k \in PlaceKeys :
              Copies(k) # {} /\ thumb_filename_for_vault_key(k).name \in thumbs

\* --------------------------------------------- claims on the import frame
ImportPcs == PlacePcs \cup RunPcs

\* C33: a step of a place request or of a pipeline run - its start, the
\* dedupe check, the creation and the write of the file, the reading of the
\* dimensions, the thumbnail, a failure at any of them, its return - changes
\* no vault_files row and no item row; a step that changes a row is a step
\* of a caller that is in neither.
ImportLeavesLedger ==
    /\ [][\A p \in Procs :
             (proc[p].pc \in ImportPcs \/ proc'[p].pc \in ImportPcs)
             => items' = items /\ ledger' = ledger]_vars
    /\ [][(items' # items \/ ledger' # ledger)
          => \E p \in Procs :
                /\ proc'[p] # proc[p]
                /\ proc[p].pc \notin ImportPcs \cup {"idle"}]_vars

\* a run has deduped on the blob of a key that an item row references and
\* has made its thumbnail, and the row of the key is at 1 as before
ImportLeavesLedgerWitness ==
    \E p \in Procs :
        /\ At(p, "run_done")
        /\ proc[p].deduped
        /\ proc[p].thumb_status = "ready"
        /\ RefCount(ledger, proc[p].name) = 1
        /\ ItemRefs(items, proc[p].name) = 1

\* ------------------------------------------------- claims on the sweep frame
SweepStepPcs == {"select", "find", "rm", "thumb", "prune"}

\* C32: a step of a sweep leaves every ledger row whose ref_count is above 0
\* as it is, with its count, every blob copy of the file name its digest and
\* extension build, and the thumbnail of its key.  (No step of a sweep
\* raises or lowers a count, so the rows above 0 at a step are the rows that
\* were above 0 when the sweep selected.)
SweepLeavesReferenced ==
    [][\A p \in Procs :
          proc[p].pc \in SweepStepPcs
          => \A k \in DOMAIN ledger :
                ledger[k].ref_count > 0
                => /\ k \in DOMAIN ledger' /\ ledger'[k] = ledger[k]
                   /\ \A f \in DOMAIN blobs :
                         f[1] = build_vault_filename(ledger[k].sha256, ledger[k].ext)
                         => blobs'[f] = blobs[f]
                   /\ thumb_filename_for_vault_key(k).name \in thumbs
                      => thumb_filename_for_vault_key(k).name \in thumbs']_vars

\* ------------------------------------------- claims on the thumbnail lifecycle
\* no caller is inside a place request or a pipeline run
NoRunInProgress == \A p \in Procs : proc[p].pc \notin ImportPcs \cup {"run_write"}

\* C31: when the ledger row of a key has been pruned and no pipeline run is
\* in progress, the thumbnail of the key is on the disk only if a blob copy
\* of the key is.
ThumbnailMirrorsBlob ==
    \A k \in PlaceKeys :
        (k \notin DOMAIN ledger /\ NoRunInProgress)
        => (thumb_filename_for_vault_key(k).name \in thumbs => Copies(k) # {})

\* ------------------------------------------------ claims on the reclamation
\* C22: with sweeps that run again and again and I/O that succeeds in the
\* end, from some point on no blob file is left of a key that no item row
\* references.
UnreferencedReclaimed ==
    <>[](\A k \in PlaceKeys : ItemRefs(items, k) = 0 => Copies(k) = {})

\* ---------------------------------------------- claims on the reconciliation
\* the keys of the item rows the backfill reads
BackfillKeys == {items[i].vault_key : i \in {j \in DOMAIN items : items[j].vault_key # <<>>}}

\* C23: a backfill that starts on an empty ledger ends with exactly one row
\* for every key of an item row that parses, at the number of item rows of
\* that key, and goes on to the sweep whatever keys do not parse; a backfill
\* that starts on a ledger with a row writes nothing.
Reconciles ==
    /\ [][\A p \in Procs :
             (At(p, "backfill_write") /\ proc'[p].pc = "select")
             => /\ DOMAIN ledger' = {k \in BackfillKeys : parse_vault_key(k).ok}
                /\ \A k \in DOMAIN ledger' :
                      /\ ledger'[k].ref_count = ItemRefs(items, k)
                      /\ ledger'[k].sha256 = parse_vault_key(k).sha256
                      /\ ledger'[k].ext = parse_vault_key(k).ext]_vars
    /\ [][\A p \in Procs :
             At(p, "backfill_write")
             => /\ proc'[p].pc \in {"backfill_write", "select"}
                /\ items' = items]_vars
    /\ [][\A p \in Procs :
             (At(p, "idle") /\ proc'[p].pc # "idle")
             => /\ ledger' = ledger /\ items' = items
                /\ proc'[p].pc = "backfill_write"
                   => DOMAIN ledger = {} /\ BackfillKeys # {}
                /\ (proc'[p].pc = "select" /\ DOMAIN ledger = {})
                   => BackfillKeys = {}]_vars
    /\ [](\A p \in Procs :
             At(p, "backfill_write")
             => \A k \in DOMAIN ledger :
                   k \in BackfillKeys /\ ledger[k].ref_count = ItemRefs(items, k))

\* a backfill has ended with the row of one item's key, the other item's
\* key, which does not parse, skipped
ReconcilesWitness ==
    \E p \in Procs :
        /\ At(p, "select")
        /\ \E i \in DOMAIN items : ~parse_vault_key(items[i].vault_key).ok
        /\ \E k \in DOMAIN ledger : k # OtherKey /\ ledger[k].ref_count = 1

====
